---- MODULE Spec2Model ----
(***************************************************************************)
(* ZenReader content script: the focus-mode session (style snapshot cache, *)
(* depth-bounded capture and clone, isolated style context with its        *)
(* asynchronous cross-origin stylesheet fetches) as a state machine.       *)
(*                                                                         *)
(* CSS text is a sequence of tokens; a font-face rule is the token         *)
(* sequence <<"@font-face{", ..., "}">>.  A DOM subtree is a chain of      *)
(* elements 0..chain (element i at level i below the root 0) with `bulk`   *)
(* further leaf children of the root, which stand together as element -1.  *)
(***************************************************************************)
EXTENDS Integers, Sequences, FiniteSets

\* ----------------------------------------------------------------- bounds
MaxSessions == 2
MaxURLs == 2
MaxChain == 12
MaxMessages == 4
InlineStyles == 1
MaxBulk == 2003
MaxCap == 6
MaxLeaves == 3
MaxTokens == 3
MaxNodes == 3
MaxUpdates == 3
MaxTriggers == 3
MaxLoads == 2
MaxFetches == 2
MaxClasses == 2

\* ------------------------------------------------------ program constants
EstimateCap == 2000
SmallTreeLimit == 100
LargeTreeLimit == 1000
SmallTreeDepth == 50
MediumTreeDepth == 20
LargeTreeDepth == 10
maxRetries == 3

Sessions == 1..MaxSessions
Elements == -1..MaxChain
\* null values of the state fields, one per type
NoText == <<"null">>
NoTexts == <<NoText>>
NoElement == [chain |-> -1, bulk |-> 0, colorless |-> {}]
NoDepth == -1
NoShadow == 0
UrlNames == <<"u1", "u2", "u3", "u4">>

\* --------------------------------------------------------- sample inputs
FontA == <<"@font-face{", "A", "}">>
FontB == <<"@font-face{", "B", "}">>
PlainCss == <<"p{}">>
\* what the r-th cross-origin stylesheet of the page holds
CssTexts == <<PlainCss \o FontA, FontA \o FontB, PlainCss, FontB>>
PropMaps == {<<>>, <<"--main">>}
\* the same-origin sheets of a page, each given by its font-face rules
SameSheetSamples ==
  {<<>>, << <<>> >>, << <<FontA>> >>, << <<FontA>>, <<FontA>> >>,
   << <<FontA, FontA>> >>, << <<FontA, FontB>> >>}
BulkSamples == {0, SmallTreeLimit - 1, LargeTreeLimit, MaxBulk}
ChainSamples == {0, 1, MaxChain}
Trees ==
  {[chain |-> c, bulk |-> b, colorless |-> n] :
     c \in ChainSamples, b \in BulkSamples, n \in {{}, {1}}}
DefaultTree == [chain |-> 1, bulk |-> 0, colorless |-> {}]
Pages ==
  {[tree |-> t, cross |-> 0, same |-> <<>>] :
     t \in {t \in Trees : t.colorless \subseteq 1..t.chain}}
  \cup {[tree |-> DefaultTree, cross |-> 0, same |-> s] : s \in SameSheetSamples}
  \cup {[tree |-> DefaultTree, cross |-> n, same |-> s] :
          n \in 1..MaxURLs, s \in {<<>>, << <<FontA>> >>}}
\* what the sendMessage callback can see for request r: a messaging error, an
\* unsuccessful response, a successful one without text, or the sheet's text
Responses(r) ==
  {[lastError |-> TRUE, success |-> FALSE, cssText |-> <<>>],
   [lastError |-> FALSE, success |-> FALSE, cssText |-> <<>>],
   [lastError |-> FALSE, success |-> TRUE, cssText |-> <<>>],
   [lastError |-> FALSE, success |-> TRUE, cssText |-> CssTexts[r]]}

VARIABLES
  page,               \* the host page: selectable subtree and stylesheets
  isSelectionMode, isFocusMode, selectedElement, overlayElement,
  focusContainer, shadowRoot, maxDepth, fetchedCSSTexts, currentStateActive,
  styleCache,         \* element -> session whose capture pass recorded it
  headFonts,          \* text of style[data-zenreader-fonts] in the host head
  bodyClass, docOverlays, docContainers,
  sessions,           \* number of focus sessions entered so far
  shadow,             \* session -> child list of its shadow root
  remaining, collected, pending,   \* closure state of fetchCrossOriginSheets
  sent,               \* session -> number of fetchCSS messages dispatched
  callbackCount, callbackArg, callbackSync,
  completionSteps,    \* session -> what the completion of its requests did, in order
  settleLog,          \* session -> the settled requests with the text delivered, in order
  clone,              \* the styled clone of the current session
  captureLog,         \* elements queried by the current capture pass, in order
  call                \* one call of a helper function: its arguments and what it returned

vars ==
  <<page, isSelectionMode, isFocusMode, selectedElement, overlayElement,
    focusContainer, shadowRoot, maxDepth, fetchedCSSTexts, currentStateActive,
    styleCache, headFonts, bodyClass, docOverlays, docContainers, sessions,
    shadow, remaining, collected, pending, sent, callbackCount, callbackArg,
    callbackSync, completionSteps, settleLog, clone, captureLog, call>>

\* ------------------------------------------------------------ text helpers
\* String.prototype.indexOf(sub) !== -1
Contains(text, sub) ==
  \E i \in 1..(Len(text) - Len(sub) + 1) : SubSeq(text, i, i + Len(sub) - 1) = sub

RECURSIVE Join(_)
\* Array.prototype.join('\n')
Join(list) ==
  IF list = <<>> THEN <<>>
  ELSE IF Len(list) = 1 THEN list[1]
  ELSE list[1] \o <<"\n">> \o Join(Tail(list))

RECURSIVE Flatten(_)
Flatten(lists) ==
  IF lists = <<>> THEN <<>> ELSE lists[1] \o Flatten(Tail(lists))

\* position of the first "}" at or after i, 0 when there is none
RECURSIVE ClosingBrace(_, _)
ClosingBrace(text, i) ==
  IF i > Len(text) THEN 0
  ELSE IF text[i] = "}" THEN i
  ELSE ClosingBrace(text, i + 1)

RECURSIVE ScanFontFaces(_, _)
ScanFontFaces(text, i) ==
  IF i > Len(text) THEN <<>>
  ELSE IF text[i] = "@font-face{" /\ ClosingBrace(text, i + 1) # 0
    THEN <<SubSeq(text, i, ClosingBrace(text, i + 1))>>
           \o ScanFontFaces(text, ClosingBrace(text, i + 1) + 1)
  ELSE ScanFontFaces(text, i + 1)

extractFontFaceRules(cssText) ==
  IF cssText = <<>> THEN <<>> ELSE ScanFontFaces(cssText, 1)

\* ------------------------------------------------- isolated style context
\* `phase` records which phase of addStylesToShadowDOM injected the block
Block(kind, phase, text) == [kind |-> kind, phase |-> phase, text |-> text]

RemoveAt(seq, i) == SubSeq(seq, 1, i - 1) \o SubSeq(seq, i + 1, Len(seq))
InsertBefore(seq, i, x) == SubSeq(seq, 1, i - 1) \o <<x>> \o SubSeq(seq, i, Len(seq))

\* shadow.querySelector('style[data-zenreader-custom-props]'): first match, 0 if none
CustomPropsIndex(sh) ==
  IF \E i \in 1..Len(sh) : sh[i].kind = "customProps"
  THEN CHOOSE i \in 1..Len(sh) :
         sh[i].kind = "customProps" /\ \A j \in 1..(i - 1) : sh[j].kind # "customProps"
  ELSE 0

injectCSSCustomProperties_keepOld(sh, properties, phase) ==
  IF properties = <<>> THEN sh
  ELSE IF Len(sh) >= 2
    THEN InsertBefore(sh, 2, Block("customProps", phase, properties))
  ELSE Append(sh, Block("customProps", phase, properties))

injectCSSCustomProperties(sh, properties, phase) ==
  LET existing == CustomPropsIndex(sh)
      cleared == IF existing # 0 THEN RemoveAt(sh, existing) ELSE sh
  IN IF properties = <<>> THEN cleared
     ELSE IF Len(cleared) >= 2
       THEN InsertBefore(cleared, 2, Block("customProps", phase, properties))
     ELSE Append(cleared, Block("customProps", phase, properties))

injectCSSTextIntoShadow_first(sh, cssText) ==
  <<Block("fetched", "async", cssText)>> \o sh

injectCSSTextIntoShadow(sh, cssText) ==
  Append(sh, Block("fetched", "async", cssText))

injectLinkFallback_never(sh, href) == sh

injectLinkFallback(sh, href) ==
  Append(sh, Block("link", "async", <<href>>))

\* c is the closure of one session: its shadow root, the host marker block,
\* and the counters of fetchCrossOriginSheets
injectFontFaces(c, fontFaceRules, phase) ==
  IF fontFaceRules = <<>> THEN c
  ELSE
    LET existingContent == IF c.head = NoText THEN <<>> ELSE c.head
        dedupedRules ==
          SelectSeq(fontFaceRules, LAMBDA r : ~Contains(existingContent, r))
        combined == Join(dedupedRules)
    IN IF dedupedRules = <<>> THEN c
       ELSE [c EXCEPT
               !.shadow = Append(@, Block("fontFace", phase, combined)),
               !.head = IF c.head # NoText THEN c.head \o <<"\n">> \o combined
                        ELSE combined]

\* the completion callback that createFocusContainer passes in
onCrossOriginComplete(c, texts) ==
  [c EXCEPT !.stateTexts = texts, !.calls = @ + 1, !.arg = texts,
            !.steps = Append(@, "onCrossOriginComplete")]

\* the callback addStylesToShadowDOM hands to fetchCrossOriginSheets
crossOriginComplete_callbackFirst(c, texts, updatedProps) ==
  LET c0 == onCrossOriginComplete(c, texts)
      c1 == [c0 EXCEPT !.shadow = injectCSSCustomProperties(@, updatedProps, "async"),
                       !.steps = Append(@, "injectCSSCustomProperties")]
      fetchedFontFaces ==
        Flatten([i \in 1..Len(texts) |-> extractFontFaceRules(texts[i])])
  IN IF fetchedFontFaces # <<>>
       THEN [injectFontFaces(c1, fetchedFontFaces, "async")
               EXCEPT !.steps = Append(@, "injectFontFaces")]
     ELSE c1

crossOriginComplete(c, texts, updatedProps) ==
  LET c1 == [c EXCEPT !.shadow = injectCSSCustomProperties(@, updatedProps, "async"),
                      !.steps = Append(@, "injectCSSCustomProperties")]
      fetchedFontFaces ==
        Flatten([i \in 1..Len(texts) |-> extractFontFaceRules(texts[i])])
      c2 == IF fetchedFontFaces # <<>>
              THEN [injectFontFaces(c1, fetchedFontFaces, "async")
                      EXCEPT !.steps = Append(@, "injectFontFaces")]
            ELSE c1
  IN onCrossOriginComplete(c2, texts)

\* the per-request callback of fetchCrossOriginSheets; cssText <<>> is null
sheetDone_early(c, r, cssText, updatedProps) ==
  LET c1 == [c EXCEPT
               !.collected = IF cssText # <<>> THEN Append(@, cssText) ELSE @,
               !.remaining = @ - 1]
  IN IF c1.remaining <= 1 THEN crossOriginComplete(c1, c1.collected, updatedProps) ELSE c1

sheetDone_always(c, r, cssText, updatedProps) ==
  LET c1 == [c EXCEPT
               !.collected = Append(@, cssText),
               !.remaining = @ - 1]
  IN IF c1.remaining = 0 THEN crossOriginComplete(c1, c1.collected, updatedProps) ELSE c1

sheetDone(c, r, cssText, updatedProps) ==
  LET c1 == [c EXCEPT
               !.collected = IF cssText # <<>> THEN Append(@, cssText) ELSE @,
               !.remaining = @ - 1]
  IN IF c1.remaining = 0 THEN crossOriginComplete(c1, c1.collected, updatedProps) ELSE c1

\* the response callback of chrome.runtime.sendMessage({action: 'fetchCSS'})
onFetchCSSResponse(c, r, response, updatedProps) ==
  LET c0 == [c EXCEPT !.pending = @ \ {r}]
  IN IF response.lastError
       THEN sheetDone([c0 EXCEPT !.shadow = injectLinkFallback(@, UrlNames[r])],
                      r, <<>>, updatedProps)
     ELSE IF response.success /\ response.cssText # <<>>
       THEN sheetDone([c0 EXCEPT !.shadow = injectCSSTextIntoShadow(@, response.cssText)],
                      r, response.cssText, updatedProps)
     ELSE sheetDone([c0 EXCEPT !.shadow = injectLinkFallback(@, UrlNames[r])],
                    r, <<>>, updatedProps)

\* throws: chrome.runtime.sendMessage raised synchronously
fetchSingleCrossOriginSheet(c, r, throws, updatedProps) ==
  IF throws
    THEN sheetDone([c EXCEPT !.shadow = injectLinkFallback(@, UrlNames[r])],
                   r, <<>>, updatedProps)
  ELSE [c EXCEPT !.pending = @ \cup {r}, !.sent = @ + 1]

RECURSIVE SendFrom(_, _, _, _, _)
SendFrom(c, i, n, thrown, updatedProps) ==
  IF i > n THEN c
  ELSE SendFrom(fetchSingleCrossOriginSheet(c, i, i \in thrown, updatedProps),
                i + 1, n, thrown, updatedProps)

fetchCrossOriginSheets(c, n, thrown, updatedProps) ==
  LET c0 == [c EXCEPT !.remaining = n, !.collected = <<>>]
  IN IF n = 0 THEN crossOriginComplete(c0, <<>>, updatedProps)
     ELSE SendFrom(c0, 1, n, thrown, updatedProps)

NewClosure(sh, head, texts) ==
  [shadow |-> sh, head |-> head, collected |-> <<>>, remaining |-> 0,
   pending |-> {}, sent |-> 0, calls |-> 0, arg |-> <<>>, steps |-> <<>>,
   stateTexts |-> texts]

addStylesToShadowDOM_silent(pg, head, texts, customProps, thrown, updatedProps) ==
  LET baseStyle == <<Block("base", "sync", <<>>)>>
      sh1 == injectCSSCustomProperties(baseStyle, customProps, "sync")
      \* document.styleSheets: the page's sheets and, if present, the marker block
      styleSheets ==
        pg.same \o (IF head # NoText THEN <<extractFontFaceRules(head)>> ELSE <<>>)
      sh2 == sh1 \o [i \in 1..Len(styleSheets) |->
                       Block("sameOrigin", "sync", Join(styleSheets[i]))]
      inlineCount == InlineStyles + (IF head # NoText THEN 1 ELSE 0)
      sh3 == sh2 \o [i \in 1..inlineCount |-> Block("inline", "sync", <<>>)]
      sh4 == Append(sh3, Block("special", "sync", <<>>))
      sameOriginFontFaces == Flatten(styleSheets)
      c0 == NewClosure(sh4, head, texts)
      c1 == IF sameOriginFontFaces # <<>>
              THEN injectFontFaces(c0, sameOriginFontFaces, "sync") ELSE c0
  IN IF pg.cross > 0
       THEN fetchCrossOriginSheets(c1, pg.cross, thrown, updatedProps)
     ELSE c1

addStylesToShadowDOM(pg, head, texts, customProps, thrown, updatedProps) ==
  LET baseStyle == <<Block("base", "sync", <<>>)>>
      sh1 == injectCSSCustomProperties(baseStyle, customProps, "sync")
      \* document.styleSheets: the page's sheets and, if present, the marker block
      styleSheets ==
        pg.same \o (IF head # NoText THEN <<extractFontFaceRules(head)>> ELSE <<>>)
      sh2 == sh1 \o [i \in 1..Len(styleSheets) |->
                       Block("sameOrigin", "sync", Join(styleSheets[i]))]
      inlineCount == InlineStyles + (IF head # NoText THEN 1 ELSE 0)
      sh3 == sh2 \o [i \in 1..inlineCount |-> Block("inline", "sync", <<>>)]
      sh4 == Append(sh3, Block("special", "sync", <<>>))
      sameOriginFontFaces == Flatten(styleSheets)
      c0 == NewClosure(sh4, head, texts)
      c1 == IF sameOriginFontFaces # <<>>
              THEN injectFontFaces(c0, sameOriginFontFaces, "sync") ELSE c0
  IN IF pg.cross > 0
       THEN fetchCrossOriginSheets(c1, pg.cross, thrown, updatedProps)
     ELSE onCrossOriginComplete(c1, <<>>)

\* ------------------------------------------------ subtree, capture, clone
Level(e) == IF e = -1 THEN 1 ELSE e

ChildrenOf(t, e) ==
  IF e = -1 THEN <<>>
  ELSE (IF e < t.chain THEN <<e + 1>> ELSE <<>>)
         \o (IF e = 0 /\ t.bulk > 0 THEN <<-1>> ELSE <<>>)

ElementsOf(t) == (0..t.chain) \cup (IF t.bulk > 0 THEN {-1} ELSE {})

\* the TreeWalker visits every descendant element once, the root excluded
DescendantCount(t) == t.chain + t.bulk

estimateTreeSize(t, cap) ==
  IF t = NoElement THEN 0
  ELSE IF DescendantCount(t) >= cap /\ DescendantCount(t) > 0 THEN cap
  ELSE DescendantCount(t)

\* enterFocusMode's choice of state.maxDepth
DepthCeiling_swapped(treeSize) ==
  IF treeSize < SmallTreeLimit THEN LargeTreeDepth
  ELSE IF treeSize <= LargeTreeLimit THEN MediumTreeDepth
  ELSE SmallTreeDepth

DepthCeiling(treeSize) ==
  IF treeSize < SmallTreeLimit THEN SmallTreeDepth
  ELSE IF treeSize <= LargeTreeLimit THEN MediumTreeDepth
  ELSE LargeTreeDepth

EmptyCache == [e \in Elements |-> 0]

clearStyleCache_keep(cache) == cache

clearStyleCache(cache) == EmptyCache

RECURSIVE captureStylesRecursively(_, _, _, _, _, _)
RECURSIVE CaptureEach(_, _, _, _, _, _, _)
captureStylesRecursively(t, e, depth, ceiling, session, acc) ==
  IF depth > ceiling THEN acc
  ELSE CaptureEach(t, ChildrenOf(t, e), 1, depth + 1, ceiling, session,
                   IF acc.cache[e] = 0
                     THEN [cache |-> [acc.cache EXCEPT ![e] = session],
                           log |-> Append(acc.log, e)]
                   ELSE acc)

CaptureEach(t, children, i, depth, ceiling, session, acc) ==
  IF i > Len(children) THEN acc
  ELSE IF i = Len(children)
    THEN captureStylesRecursively(t, children[i], depth, ceiling, session, acc)
  ELSE CaptureEach(t, children, i + 1, depth, ceiling, session,
                   captureStylesRecursively(t, children[i], depth, ceiling, session, acc))

NoClone == [present |-> FALSE, styled |-> {}, reads |-> [e \in Elements |-> -1]]

applyComputedStylesToElement_anyColor(t, e, cache, cl) ==
  [cl EXCEPT !.reads[e] = cache[e], !.styled = @ \cup {e}]

\* reads[e]: -1 not read, 0 a live getComputedStyle, s the snapshot of session s
applyComputedStylesToElement(t, e, cache, cl) ==
  LET cl1 == [cl EXCEPT !.reads[e] = cache[e]]
  IN IF e \in t.colorless THEN cl1
     ELSE [cl1 EXCEPT !.styled = @ \cup {e}]

RECURSIVE processChildrenWithStyles(_, _, _, _, _, _)
RECURSIVE ProcessEach(_, _, _, _, _, _, _)
processChildrenWithStyles(t, e, depth, ceiling, cache, cl) ==
  IF depth > ceiling THEN cl
  ELSE ProcessEach(t, ChildrenOf(t, e), 1, depth, ceiling, cache, cl)

ProcessChild(t, child, depth, ceiling, cache, cl) ==
  LET cl1 == applyComputedStylesToElement(t, child, cache, cl)
  IN IF cl1.present /\ ChildrenOf(t, child) # <<>>
       THEN processChildrenWithStyles(t, child, depth + 1, ceiling, cache, cl1)
     ELSE cl1

\* the clone is a deep copy, so targetChildren has an element wherever
\* sourceChildren has one
ProcessEach(t, children, i, depth, ceiling, cache, cl) ==
  IF i > Len(children) THEN cl
  ELSE IF i = Len(children)
    THEN ProcessChild(t, children[i], depth, ceiling, cache, cl)
  ELSE ProcessEach(t, children, i + 1, depth, ceiling, cache,
                   ProcessChild(t, children[i], depth, ceiling, cache, cl))

cloneElementWithStyles(t, ceiling, cache) ==
  LET cl0 == [NoClone EXCEPT !.present = TRUE]
      cl1 == applyComputedStylesToElement(t, 0, cache, cl0)
  IN processChildrenWithStyles(t, 0, 0, ceiling, cache, cl1)

\* ------------------------------------------------------------------ state
NoCall == [fn |-> "none"]

Init ==
  /\ page \in Pages
  /\ isSelectionMode = FALSE
  /\ isFocusMode = FALSE
  /\ selectedElement = NoElement
  /\ overlayElement = FALSE
  /\ focusContainer = FALSE
  /\ shadowRoot = NoShadow
  /\ maxDepth = NoDepth
  /\ fetchedCSSTexts = NoTexts
  /\ currentStateActive = FALSE
  /\ styleCache = EmptyCache
  /\ headFonts = NoText
  /\ bodyClass = FALSE
  /\ docOverlays = 0
  /\ docContainers = 0
  /\ sessions = 0
  /\ shadow = [s \in Sessions |-> <<>>]
  /\ remaining = [s \in Sessions |-> 0]
  /\ collected = [s \in Sessions |-> <<>>]
  /\ pending = [s \in Sessions |-> {}]
  /\ sent = [s \in Sessions |-> 0]
  /\ callbackCount = [s \in Sessions |-> 0]
  /\ callbackArg = [s \in Sessions |-> <<>>]
  /\ callbackSync = [s \in Sessions |-> FALSE]
  /\ completionSteps = [s \in Sessions |-> <<>>]
  /\ settleLog = [s \in Sessions |-> <<>>]
  /\ clone = NoClone
  /\ captureLog = <<>>
  /\ call = NoCall

closureVars ==
  <<shadow, remaining, collected, pending, sent, callbackCount, callbackArg,
    callbackSync, completionSteps, settleLog>>
focusVars ==
  <<isFocusMode, selectedElement, overlayElement, focusContainer, shadowRoot,
    maxDepth, currentStateActive, styleCache, bodyClass, docOverlays,
    docContainers, sessions, clone, captureLog>>

\* the rule text a response delivers: none with a messaging error or an
\* unsuccessful response
DeliveredText(response) ==
  IF response.lastError \/ ~response.success THEN <<>> ELSE response.cssText
\* the requests whose sendMessage call threw, in call order
ThrownLog(thrown, n) ==
  LET hit == SelectSeq([i \in 1..n |-> i], LAMBDA i : i \in thrown)
  IN [i \in 1..Len(hit) |-> [req |-> hit[i], text |-> <<>>]]

\* write the closure c of session s back into the state; inCall says that the
\* step is the call of addStylesToShadowDOM itself, settled lists the requests
\* the step settles
StoreClosure(s, c, inCall, settled) ==
  /\ shadow' = [shadow EXCEPT ![s] = c.shadow]
  /\ remaining' = [remaining EXCEPT ![s] = c.remaining]
  /\ collected' = [collected EXCEPT ![s] = c.collected]
  /\ pending' = [pending EXCEPT ![s] = c.pending]
  /\ sent' = [sent EXCEPT ![s] = c.sent]
  /\ callbackCount' = [callbackCount EXCEPT ![s] = c.calls]
  /\ callbackArg' = [callbackArg EXCEPT ![s] = c.arg]
  /\ completionSteps' = [completionSteps EXCEPT ![s] = c.steps]
  /\ callbackSync' = [callbackSync EXCEPT ![s] = @ \/ (inCall /\ c.calls > callbackCount[s])]
  /\ settleLog' = [settleLog EXCEPT ![s] = @ \o settled]
  /\ headFonts' = c.head
  /\ fetchedCSSTexts' = c.stateTexts

LoadClosure(s) ==
  [shadow |-> shadow[s], head |-> headFonts, collected |-> collected[s],
   remaining |-> remaining[s], pending |-> pending[s], sent |-> sent[s],
   calls |-> callbackCount[s], arg |-> callbackArg[s],
   steps |-> completionSteps[s], stateTexts |-> fetchedCSSTexts]

\* ---------------------------------------------------------------- actions
startSelectionMode ==
  IF isSelectionMode \/ isFocusMode THEN UNCHANGED isSelectionMode
  ELSE isSelectionMode' = TRUE

exitSelectionMode ==
  IF ~isSelectionMode THEN UNCHANGED isSelectionMode
  ELSE isSelectionMode' = FALSE

enterFocusMode_unguarded(el, customProps, thrown, updatedProps) ==
  IF el = NoElement
    THEN /\ selectedElement' = el
         /\ UNCHANGED <<isFocusMode, overlayElement, focusContainer, shadowRoot,
                        maxDepth, currentStateActive, styleCache, bodyClass,
                        docOverlays, docContainers, sessions, clone, captureLog,
                        headFonts, fetchedCSSTexts>>
         /\ UNCHANGED closureVars
  ELSE
    LET s == sessions + 1
        ceiling == DepthCeiling(estimateTreeSize(el, EstimateCap))
        captured ==
          captureStylesRecursively(el, 0, 0, ceiling, s,
                                   [cache |-> clearStyleCache(styleCache), log |-> <<>>])
        c == addStylesToShadowDOM(page, headFonts, fetchedCSSTexts,
                                  customProps, thrown, updatedProps)
        contentClone == cloneElementWithStyles(el, ceiling, captured.cache)
    IN /\ selectedElement' = el
       /\ isFocusMode' = TRUE
       /\ currentStateActive' = TRUE
       /\ sessions' = s
       /\ maxDepth' = ceiling
       /\ styleCache' = captured.cache
       /\ captureLog' = captured.log
       /\ overlayElement' = TRUE
       /\ docOverlays' = docOverlays + 1
       /\ focusContainer' = TRUE
       /\ shadowRoot' = s
       /\ clone' = contentClone
       /\ StoreClosure(s, [c EXCEPT !.shadow = Append(@, Block("container", "sync", <<>>))],
                       TRUE, ThrownLog(thrown, page.cross))
       /\ docContainers' = docContainers + 1
       /\ bodyClass' = TRUE

\* createOverlay, createFocusContainer and the rest of enterFocusMode, for the
\* element el that handleElementSelection stored in state.selectedElement
enterFocusMode(el, customProps, thrown, updatedProps) ==
  IF isFocusMode \/ el = NoElement
    THEN /\ selectedElement' = el
         /\ UNCHANGED <<isFocusMode, overlayElement, focusContainer, shadowRoot,
                        maxDepth, currentStateActive, styleCache, bodyClass,
                        docOverlays, docContainers, sessions, clone, captureLog,
                        headFonts, fetchedCSSTexts>>
         /\ UNCHANGED closureVars
  ELSE
    LET s == sessions + 1
        ceiling == DepthCeiling(estimateTreeSize(el, EstimateCap))
        captured ==
          captureStylesRecursively(el, 0, 0, ceiling, s,
                                   [cache |-> clearStyleCache(styleCache), log |-> <<>>])
        c == addStylesToShadowDOM(page, headFonts, fetchedCSSTexts,
                                  customProps, thrown, updatedProps)
        contentClone == cloneElementWithStyles(el, ceiling, captured.cache)
    IN /\ selectedElement' = el
       /\ isFocusMode' = TRUE
       /\ currentStateActive' = TRUE
       /\ sessions' = s
       /\ maxDepth' = ceiling
       /\ styleCache' = captured.cache
       /\ captureLog' = captured.log
       /\ overlayElement' = TRUE
       /\ docOverlays' = docOverlays + 1
       /\ focusContainer' = TRUE
       /\ shadowRoot' = s
       /\ clone' = contentClone
       /\ StoreClosure(s, [c EXCEPT !.shadow = Append(@, Block("container", "sync", <<>>))],
                       TRUE, ThrownLog(thrown, page.cross))
       /\ docContainers' = docContainers + 1
       /\ bodyClass' = TRUE

exitFocusMode_keepBodyClass ==
  IF ~isFocusMode
    THEN UNCHANGED <<focusVars, headFonts, fetchedCSSTexts>>
  ELSE /\ isFocusMode' = FALSE
       /\ currentStateActive' = FALSE
       /\ docOverlays' = IF overlayElement THEN docOverlays - 1 ELSE docOverlays
       /\ docContainers' = IF focusContainer THEN docContainers - 1 ELSE docContainers
       \* resetFocusState
       /\ selectedElement' = NoElement
       /\ overlayElement' = FALSE
       /\ focusContainer' = FALSE
       /\ shadowRoot' = NoShadow
       /\ maxDepth' = NoDepth
       /\ fetchedCSSTexts' = NoTexts
       /\ clone' = NoClone
       /\ headFonts' = NoText
       /\ styleCache' = clearStyleCache(styleCache)
       /\ UNCHANGED bodyClass
       /\ UNCHANGED <<sessions, captureLog>>

exitFocusMode ==
  IF ~isFocusMode
    THEN UNCHANGED <<focusVars, headFonts, fetchedCSSTexts>>
  ELSE /\ isFocusMode' = FALSE
       /\ currentStateActive' = FALSE
       /\ docOverlays' = IF overlayElement THEN docOverlays - 1 ELSE docOverlays
       /\ docContainers' = IF focusContainer THEN docContainers - 1 ELSE docContainers
       \* resetFocusState
       /\ selectedElement' = NoElement
       /\ overlayElement' = FALSE
       /\ focusContainer' = FALSE
       /\ shadowRoot' = NoShadow
       /\ maxDepth' = NoDepth
       /\ fetchedCSSTexts' = NoTexts
       /\ clone' = NoClone
       /\ headFonts' = NoText
       /\ styleCache' = clearStyleCache(styleCache)
       /\ bodyClass' = FALSE
       /\ UNCHANGED <<sessions, captureLog>>

\* sendMessage calls for fetchCSS made so far, over all sessions
MessageCount == sessions * page.cross

\* the 'activate' message of the background
Activate ==
  /\ IF ~isSelectionMode /\ ~isFocusMode
       THEN startSelectionMode /\ UNCHANGED <<focusVars, headFonts, fetchedCSSTexts>>
     ELSE IF isFocusMode
       THEN exitFocusMode /\ UNCHANGED isSelectionMode
     ELSE UNCHANGED <<isSelectionMode, focusVars, headFonts, fetchedCSSTexts>>
  /\ UNCHANGED <<page, call, closureVars>>

\* a click on the page while the selection listeners are installed
handleElementSelection ==
  /\ isSelectionMode
  /\ sessions < MaxSessions
  /\ MessageCount + page.cross <= MaxMessages
  \* sendMessage throws once the extension context is gone: from the k-th call on
  /\ \E customProps \in PropMaps, updatedProps \in PropMaps,
        thrown \in {(k..page.cross) : k \in 1..(page.cross + 1)} :
       /\ exitSelectionMode
       /\ enterFocusMode(page.tree, customProps, thrown, updatedProps)
  /\ UNCHANGED <<page, call>>

handleKeyDown ==
  /\ IF isSelectionMode
       THEN exitSelectionMode /\ UNCHANGED <<focusVars, headFonts, fetchedCSSTexts>>
     ELSE IF isFocusMode
       THEN exitFocusMode /\ UNCHANGED isSelectionMode
     ELSE UNCHANGED <<isSelectionMode, focusVars, headFonts, fetchedCSSTexts>>
  /\ UNCHANGED <<page, call, closureVars>>

\* the exit button, or a click whose target is the overlay itself
ExitClick ==
  /\ isFocusMode
  /\ exitFocusMode
  /\ UNCHANGED <<page, call, isSelectionMode, closureVars>>

\* the response to one fetchCSS message reaches the content script
FetchCSSResponse(s, r) ==
  /\ r \in pending[s]
  /\ \E response \in Responses(r), updatedProps \in PropMaps :
       StoreClosure(s, onFetchCSSResponse(LoadClosure(s), r, response, updatedProps),
                    FALSE, <<[req |-> r, text |-> DeliveredText(response)]>>)
  /\ UNCHANGED <<page, call, isSelectionMode, focusVars>>

Next ==
  \/ Activate
  \/ handleElementSelection
  \/ handleKeyDown
  \/ ExitClick
  \/ \E s \in Sessions, r \in 1..MaxURLs : FetchCSSResponse(s, r)

Spec == Init /\ [][Next]_vars

\* enterFocusMode is exported: a call of it from outside the click handler,
\* for the element state.selectedElement holds
enterFocusModeCall ==
  /\ sessions < MaxSessions
  /\ MessageCount + page.cross <= MaxMessages
  /\ \E customProps \in PropMaps, updatedProps \in PropMaps,
        thrown \in {(k..page.cross) : k \in 1..(page.cross + 1)} :
       enterFocusMode(selectedElement, customProps, thrown, updatedProps)
  /\ UNCHANGED <<page, call, isSelectionMode>>

ReentrySpec == Init /\ [][Next \/ enterFocusModeCall]_vars

\* ------------------------------------------------- helper functions, alone
\* the content script before any activation, on a page without stylesheets
Quiescent ==
  /\ page = [tree |-> DefaultTree, cross |-> 0, same |-> <<>>]
  /\ isSelectionMode = FALSE
  /\ isFocusMode = FALSE
  /\ selectedElement = NoElement
  /\ overlayElement = FALSE
  /\ focusContainer = FALSE
  /\ shadowRoot = NoShadow
  /\ maxDepth = NoDepth
  /\ fetchedCSSTexts = NoTexts
  /\ currentStateActive = FALSE
  /\ styleCache = EmptyCache
  /\ headFonts = NoText
  /\ bodyClass = FALSE
  /\ docOverlays = 0
  /\ docContainers = 0
  /\ sessions = 0
  /\ shadow = [s \in Sessions |-> <<>>]
  /\ remaining = [s \in Sessions |-> 0]
  /\ collected = [s \in Sessions |-> <<>>]
  /\ pending = [s \in Sessions |-> {}]
  /\ sent = [s \in Sessions |-> 0]
  /\ callbackCount = [s \in Sessions |-> 0]
  /\ callbackArg = [s \in Sessions |-> <<>>]
  /\ callbackSync = [s \in Sessions |-> FALSE]
  /\ completionSteps = [s \in Sessions |-> <<>>]
  /\ settleLog = [s \in Sessions |-> <<>>]
  /\ clone = NoClone
  /\ captureLog = <<>>

sessionVars ==
  <<page, isSelectionMode, isFocusMode, selectedElement, overlayElement,
    focusContainer, shadowRoot, maxDepth, fetchedCSSTexts, currentStateActive,
    styleCache, headFonts, bodyClass, docOverlays, docContainers, sessions,
    shadow, remaining, collected, pending, sent, callbackCount, callbackArg,
    callbackSync, completionSteps, settleLog, clone, captureLog>>

\* estimateTreeSize as the loop it is: returns the result and how many nodes
\* the TreeWalker handed out
RECURSIVE TreeWalk_late(_, _, _)
TreeWalk_late(t, cap, count) ==
  IF count < DescendantCount(t)
    THEN (IF count + 1 > cap THEN [result |-> cap, visited |-> count + 1]
          ELSE TreeWalk_late(t, cap, count + 1))
  ELSE [result |-> count, visited |-> count]

RECURSIVE TreeWalk(_, _, _)
TreeWalk(t, cap, count) ==
  IF count < DescendantCount(t)
    THEN (IF count + 1 >= cap THEN [result |-> cap, visited |-> count + 1]
          ELSE TreeWalk(t, cap, count + 1))
  ELSE [result |-> count, visited |-> count]

EstimateCalls ==
  {[fn |-> "estimateTreeSize", element |-> t, cap |-> cap, returned |-> FALSE,
    result |-> 0, visited |-> 0] :
     t \in {NoElement} \cup {[chain |-> c, bulk |-> b, colorless |-> {}] :
                                c \in 0..MaxChain, b \in 0..MaxLeaves},
     cap \in 1..MaxCap}

EstimateInit == Quiescent /\ call \in EstimateCalls

estimateTreeSizeCall ==
  /\ call.fn = "estimateTreeSize" /\ ~call.returned
  /\ LET walked == IF call.element = NoElement THEN [result |-> 0, visited |-> 0]
                   ELSE TreeWalk(call.element, call.cap, 0)
     IN call' = [call EXCEPT !.returned = TRUE, !.result = walked.result,
                             !.visited = walked.visited]
  /\ UNCHANGED sessionVars

EstimateSpec == EstimateInit /\ [][estimateTreeSizeCall]_vars

\* --------------------------------------------- style overrides of a clone
\* a source element as the cloner sees it: tag name, the vocabulary words its
\* class name contains, its text and children, and its computed style
commonTagIdentifiers == {"tag", "label", "badge", "pill", "chip", "hashtag", "category"}
ContentWords == {"content", "article", "post", "main", "body", "text"}
shouldBeFull == {"div", "section", "article", "main", "header", "footer", "nav", "aside"}
ShortTextLimit == 30
WideTable == 500

TagNames == {"div", "span", "p", "h2", "ul", "pre", "code", "img", "table", "a"}
\* the sampled elements have no id, no border and no border radius
PlainElements ==
  [tagName : TagNames,
   classWords : {{}, {"tag", "pill"}, {"post", "content"}},
   parentWords : {{}, {"category"}},
   textLength : {0, 5, ShortTextLimit},
   hashtag : BOOLEAN,
   children : {0, 3},
   color : {"", "rgb(0, 0, 0)"},
   display : {"block", "inline-block", "none"},
   backgroundColor : {"rgba(0, 0, 0, 0)", "rgb(238, 238, 238)"},
   margin : {"0px", "0px 20px"},
   padding : {"0px", "0px 16px"},
   offsetWidth : {0}]
TableWidths == {WideTable, WideTable + 1}

\* the inline declarations this model follows
StyleProps ==
  {"width", "max-width", "box-sizing", "padding-left", "padding-right",
   "margin-left", "margin-right", "display", "height"}
NoDeclaration == [value |-> "", important |-> FALSE]
EmptyStyle == [prop \in StyleProps |-> NoDeclaration]

\* the left/right part of a margin or padding shorthand value
SidesOf(value) ==
  CASE value = "0px" -> "0px"
    [] value = "0px 20px" -> "20px"
    [] value = "0px 16px" -> "16px"
    [] value = "1em 0" -> "0"
    [] value = "0.5em 0" -> "0"
    [] value = "0.2em 0.4em" -> "0.4em"
    [] OTHER -> value

\* CSSStyleDeclaration.setProperty: an empty value removes the declaration, a
\* shorthand sets each of its longhands, and the priority given replaces the
\* priority the declaration had
setProperty(style, prop, value, important) ==
  LET decl == IF value = "" THEN NoDeclaration
              ELSE [value |-> value, important |-> important]
      sides == IF value = "" THEN NoDeclaration
               ELSE [value |-> SidesOf(value), important |-> important]
  IN CASE prop = "margin" ->
            [style EXCEPT !["margin-left"] = sides, !["margin-right"] = sides]
       [] prop = "padding" ->
            [style EXCEPT !["padding-left"] = sides, !["padding-right"] = sides]
       [] prop \in StyleProps -> [style EXCEPT ![prop] = decl]
       [] OTHER -> style

\* computedStyle.marginLeft, .paddingLeft and their right-hand twins
ComputedSide(shorthand) == SidesOf(shorthand)

isPossibleTagElement(el) ==
  LET hasTagClass == el.classWords \cap commonTagIdentifiers # {}
      isShortText == el.textLength < ShortTextLimit
      hasSimpleStructure == el.children <= 1
      hasInlineDisplay == el.display \in {"inline", "inline-block", "inline-flex"}
      hasBackground == el.backgroundColor \notin {"", "transparent", "rgba(0, 0, 0, 0)"}
      isHashtag == el.hashtag /\ el.textLength > 0
      hasTagContainer == el.parentWords \cap commonTagIdentifiers # {}
  IN \/ hasTagClass
     \/ isHashtag
     \/ hasTagContainer
     \/ (isShortText /\ hasSimpleStructure /\ (hasInlineDisplay \/ hasBackground))

\* a value the allow-list copy treats as not set
NotMeaningful(value) ==
  value \in {"", "none", "normal", "0px", "rgba(0, 0, 0, 0)", "transparent"}

\* one style.setProperty call of applyComputedStylesToElement and the
\* condition under which the code reaches it
Edit(reached, prop, value, important) ==
  [reached |-> reached, prop |-> prop, value |-> value, important |-> important]
RECURSIVE applyEdits(_, _, _)
applyEdits(style, edits, i) ==
  IF i > Len(edits) THEN style
  ELSE applyEdits(IF edits[i].reached
                    THEN setProperty(style, edits[i].prop, edits[i].value,
                                     edits[i].important)
                  ELSE style,
                  edits, i + 1)

\* the setProperty calls in the order of the code; the sampled images are
\* the only child of their parent, the sampled elements hold no paragraph
\* and no heading
StyleEdits(el, isTopLevel) ==
  LET tag == ~isTopLevel /\ isPossibleTagElement(el)
      plain == ~isTopLevel /\ ~isPossibleTagElement(el)
      hasContent == el.children > 0 \/ el.textLength > 0
      table == plain /\ el.tagName = "table"
      wideDiv == plain /\ el.tagName = "div" /\ el.children > 2
      contentDiv == wideDiv /\ el.classWords \cap ContentWords # {}
      image == plain /\ el.tagName \in {"img", "video"}
  IN <<Edit(isTopLevel, "width", "100%", TRUE),
       Edit(isTopLevel, "max-width", "100%", TRUE),
       Edit(isTopLevel, "box-sizing", "border-box", TRUE),
       Edit(isTopLevel, "padding-left", "0", TRUE),
       Edit(isTopLevel, "padding-right", "0", TRUE),
       Edit(isTopLevel, "margin-left", "0", TRUE),
       Edit(isTopLevel, "margin-right", "0", TRUE),
       Edit(tag, "display", el.display, TRUE),
       \* removeProperty('width')
       Edit(tag, "width", "", FALSE),
       Edit(tag, "margin-left", ComputedSide(el.margin), FALSE),
       Edit(tag, "margin-right", ComputedSide(el.margin), FALSE),
       Edit(plain /\ el.tagName \in shouldBeFull /\ hasContent, "width", "100%", TRUE),
       Edit(plain /\ el.tagName \in {"img", "video", "iframe", "canvas", "svg"},
            "max-width", "100%", TRUE),
       Edit(plain /\ el.tagName \in {"img", "video", "iframe", "canvas", "svg"},
            "height", "auto", TRUE),
       Edit(image, "display", "block", TRUE),
       Edit(image, "margin-left", "auto", TRUE),
       Edit(image, "margin-right", "auto", TRUE),
       Edit(table, "width", "100%", TRUE),
       Edit(table, "max-width", "100%", TRUE),
       Edit(table /\ el.offsetWidth > WideTable, "display", "block", TRUE),
       Edit(wideDiv, "width", "100%", TRUE),
       Edit(contentDiv, "max-width", "100%", TRUE),
       Edit(contentDiv, "margin-left", "0", TRUE),
       Edit(contentDiv, "margin-right", "0", TRUE),
       Edit(el.display # "none", "display", el.display, TRUE),
       \* EXTENDED_STYLE_PROPERTIES, in list order: display, margin, padding
       Edit(~NotMeaningful(el.display), "display", el.display, FALSE),
       Edit(~NotMeaningful(el.margin), "margin", el.margin, FALSE),
       Edit(~NotMeaningful(el.padding), "padding", el.padding, FALSE),
       \* finishing touches by tag name
       Edit(el.tagName = "img", "max-width", "100%", FALSE),
       Edit(el.tagName = "img", "height", "auto", FALSE),
       Edit(el.tagName = "img", "display", "inline-block", FALSE),
       Edit(el.tagName \in {"h1", "h2", "h3", "h4", "h5", "h6"}, "margin", el.margin, FALSE),
       Edit(el.tagName = "p", "margin", el.margin, FALSE),
       Edit(el.tagName \in {"ul", "ol"}, "padding-left", ComputedSide(el.padding), FALSE),
       Edit(el.tagName \in {"pre", "code"}, "padding", el.padding, FALSE),
       Edit(el.tagName \in {"pre", "code"}, "width", "100%", FALSE)>>

\* the declarations applyComputedStylesToElement leaves on a target whose
\* inline style was `style`, for the source element el
StyleOverrides(el, isTopLevel, style) ==
  IF el.color = "" THEN style
  ELSE applyEdits(style, StyleEdits(el, isTopLevel), 1)

\* a call for any sampled element, a table in either width
ClonerInit ==
  /\ Quiescent
  /\ \E el \in PlainElements, top \in BOOLEAN, w \in TableWidths :
       /\ el.tagName = "table" \/ w = WideTable
       /\ call = [fn |-> "applyComputedStylesToElement",
                  source |-> [el EXCEPT !.offsetWidth =
                                          IF el.tagName = "table" THEN w ELSE 0],
                  isTopLevel |-> top, returned |-> FALSE, style |-> EmptyStyle]

\* cloneElementWithStyles for the root (isTopLevel), processChildrenWithStyles
\* for a descendant
applyComputedStylesCall ==
  /\ call.fn = "applyComputedStylesToElement" /\ ~call.returned
  /\ call' = [call EXCEPT !.returned = TRUE,
                          !.style = StyleOverrides(call.source, call.isTopLevel, @)]
  /\ UNCHANGED sessionVars

ClonerSpec == ClonerInit /\ [][applyComputedStylesCall]_vars

\* ------------------------------------------------- generated content value
\* a content value is a sequence of characters; "\n" is the newline,
\* "U+2022" the bullet and "U+00A0" the non-breaking space
Backslash == "\\"
Bullet == "U+2022"
Nbsp == "U+00A0"
Quotes == {"\"", "'"}
\* \s of a JavaScript regular expression, and what trim() strips
IsSpace(c) == c \in {" ", "\t", "\n", Nbsp}
Lower(c) == CASE c = "A" -> "a" [] c = "E" -> "e" [] OTHER -> c

RECURSIVE trimStart(_)
trimStart(text) ==
  IF text # <<>> /\ IsSpace(text[1]) THEN trimStart(Tail(text)) ELSE text
RECURSIVE trimEnd(_)
trimEnd(text) ==
  IF text # <<>> /\ IsSpace(text[Len(text)])
    THEN trimEnd(SubSeq(text, 1, Len(text) - 1)) ELSE text
trim(text) == trimEnd(trimStart(text))

NoMatch == <<"no match">>
StartsAt(text, i, word) ==
  i + Len(word) - 1 <= Len(text) /\ SubSeq(text, i, i + Len(word) - 1) = word

\* end of the longest run from i of characters outside `stop`: first index after it
RECURSIVE RunEnd(_, _, _)
RunEnd(text, i, stop) ==
  IF i <= Len(text) /\ text[i] \notin stop THEN RunEnd(text, i + 1, stop) ELSE i

\* /url\(["']?([^"')]+)["']?\)/ tried at position i: the capture or NoMatch
UrlAt(text, i) ==
  IF ~StartsAt(text, i, <<"u", "r", "l", "(">>) THEN NoMatch
  ELSE LET from == IF i + 4 <= Len(text) /\ text[i + 4] \in Quotes THEN i + 5 ELSE i + 4
           to == RunEnd(text, from, Quotes \cup {")"})
           close == IF to <= Len(text) /\ text[to] \in Quotes THEN to + 1 ELSE to
       IN IF to > from /\ close <= Len(text) /\ text[close] = ")"
            THEN SubSeq(text, from, to - 1) ELSE NoMatch

\* String.prototype.match without the g flag: the leftmost match
RECURSIVE UrlMatch(_, _)
UrlMatch(text, i) ==
  IF i > Len(text) THEN NoMatch
  ELSE IF UrlAt(text, i) # NoMatch THEN UrlAt(text, i)
  ELSE UrlMatch(text, i + 1)

\* /name\(([^)]+)\)/ matches somewhere in text
CallMatch(text, name) ==
  \E i \in 1..Len(text) :
    /\ StartsAt(text, i, name \o <<"(">>)
    /\ LET from == i + Len(name) + 1
           to == RunEnd(text, from, {")"})
       IN to > from /\ to <= Len(text)

\* /^["'](.*)["']$/ : the capture or NoMatch
StringMatch(text) ==
  IF /\ Len(text) >= 2
     /\ text[1] \in Quotes /\ text[Len(text)] \in Quotes
     /\ \A i \in 2..(Len(text) - 1) : text[i] # "\n"
    THEN SubSeq(text, 2, Len(text) - 1) ELSE NoMatch

\* text.replace(/\\<name>\s?/g, repl): <name> compared without case when ci,
\* the \s? present when optSpace
RECURSIVE ReplaceEscape(_, _, _, _, _, _)
ReplaceEscape(text, i, name, ci, optSpace, repl) ==
  IF i > Len(text) THEN <<>>
  ELSE IF /\ text[i] = Backslash
          /\ i + Len(name) <= Len(text)
          /\ \A k \in 1..Len(name) :
               (IF ci THEN Lower(text[i + k]) ELSE text[i + k]) = name[k]
    THEN LET after == i + 1 + Len(name)
             next == IF optSpace /\ after <= Len(text) /\ IsSpace(text[after])
                       THEN after + 1 ELSE after
         IN repl \o ReplaceEscape(text, next, name, ci, optSpace, repl)
  ELSE <<text[i]>> \o ReplaceEscape(text, i + 1, name, ci, optSpace, repl)

decodeEscapes(value) ==
  LET v1 == ReplaceEscape(value, 1, <<"a">>, TRUE, TRUE, <<"\n">>)
      v2 == ReplaceEscape(v1, 1, <<"2", "0", "2", "2">>, FALSE, TRUE, <<Bullet>>)
      v3 == ReplaceEscape(v2, 1, <<"0", "0", "a", "0">>, FALSE, TRUE, <<Nbsp>>)
      v4 == ReplaceEscape(v3, 1, <<"e">>, TRUE, FALSE, <<>>)
  IN ReplaceEscape(v4, 1, <<Backslash>>, FALSE, FALSE, <<Backslash>>)

NoContent == [type |-> "null", value |-> <<>>]
None == <<"n", "o", "n", "e">>
Normal == <<"n", "o", "r", "m", "a", "l">>

parsePseudoContent(rawContent) ==
  IF rawContent = <<>> \/ rawContent = None \/ rawContent = Normal THEN NoContent
  ELSE
    LET trimmed == trim(rawContent)
        urlMatch == UrlMatch(trimmed, 1)
        stringMatch == StringMatch(trimmed)
    IN IF urlMatch # NoMatch THEN [type |-> "image", value |-> urlMatch]
       ELSE IF CallMatch(trimmed, <<"c", "o", "u", "n", "t", "e", "r">>)
         THEN [type |-> "counter", value |-> <<>>]
       ELSE IF CallMatch(trimmed, <<"a", "t", "t", "r">>)
         THEN [type |-> "text", value |-> <<>>]
       ELSE IF stringMatch # NoMatch
         THEN (IF stringMatch = <<>> \/ stringMatch = <<" ">> THEN NoContent
               ELSE [type |-> "text", value |-> decodeEscapes(stringMatch)])
       ELSE NoContent

\* sample content values, built from parts: a part is a quoted string, a
\* url(), counter() or attr() form, or a bare word, and holds its tokens
EscapeA == <<Backslash, "a">>
Escape2022 == <<Backslash, "2", "0", "2", "2">>
Escape00a0 == <<Backslash, "0", "0", "a", "0">>
EscapeBackslash == <<Backslash, Backslash>>
EscapeE == <<Backslash, "e">>
UrlToken == <<"u", "r", "l", "(", "p", ")">>
BodyTokens ==
  {EscapeA, Escape2022, Escape00a0, EscapeBackslash, EscapeE,
   <<"x">>, <<" ">>, <<"a">>, UrlToken}

Part(kind, quote, tokens) == [kind |-> kind, quote |-> quote, tokens |-> tokens]
FormParts ==
  {Part("url", "", << <<"p">> >>), Part("url", "'", << <<"p">> >>),
   Part("url", "\"", << <<"p">> >>), Part("url", "\"", << <<"q">>, <<".">>, <<"p">> >>),
   Part("counter", "", << <<"n">> >>),
   Part("attr", "", << <<"n">> >>), Part("quoted", "\"", << <<"x">> >>)}
WordParts ==
  {Part("word", "", <<None>>), Part("word", "", <<Normal>>),
   Part("word", "", << <<"x">>, <<" ">>, <<"y">> >>)}
PartLists ==
  {<<>>}
  \cup {<<Part("quoted", q, body)>> : q \in Quotes, body \in UNION {[1..n -> BodyTokens] : n \in 0..MaxTokens}}
  \cup {<<part>> : part \in FormParts \cup WordParts}
  \cup {<<first, second>> : first \in FormParts, second \in FormParts}

QuoteOf(part) == IF part.quote = "" THEN <<>> ELSE <<part.quote>>
PartText(part) ==
  CASE part.kind = "quoted" -> QuoteOf(part) \o Flatten(part.tokens) \o QuoteOf(part)
    [] part.kind = "url" ->
         <<"u", "r", "l", "(">> \o QuoteOf(part) \o Flatten(part.tokens)
           \o QuoteOf(part) \o <<")">>
    [] part.kind = "counter" ->
         <<"c", "o", "u", "n", "t", "e", "r", "(">> \o Flatten(part.tokens) \o <<")">>
    [] part.kind = "attr" ->
         <<"a", "t", "t", "r", "(">> \o Flatten(part.tokens) \o <<")">>
    [] OTHER -> Flatten(part.tokens)
\* the parts of a value, separated by one space
RECURSIVE RawOf(_)
RawOf(parts) ==
  IF parts = <<>> THEN <<>>
  ELSE IF Len(parts) = 1 THEN PartText(parts[1])
  ELSE PartText(parts[1]) \o <<" ">> \o RawOf(Tail(parts))

PseudoInit ==
  /\ Quiescent
  /\ \E parts \in PartLists :
       call = [fn |-> "parsePseudoContent", parts |-> parts,
               rawContent |-> RawOf(parts), returned |-> FALSE, parsed |-> NoContent]

parsePseudoContentCall ==
  /\ call.fn = "parsePseudoContent" /\ ~call.returned
  /\ call' = [call EXCEPT !.returned = TRUE,
                          !.parsed = parsePseudoContent(call.rawContent)]
  /\ UNCHANGED sessionVars

PseudoSpec == PseudoInit /\ [][parsePseudoContentCall]_vars

\* ------------------------------------------- generated content in the clone
\* A node of the source or of the clone: the element numbered el, or the span
\* made for the ::before or ::after of source element el.
Node(el, pseudo) == [el |-> el, pseudo |-> pseudo]
NullNode == Node(0, "none")
PseudoTypes == {"before", "after"}
AllNodes == [el : 1..MaxNodes, pseudo : {"none"} \cup PseudoTypes]
\* source trees: element 1 is the root, every other element hangs under an
\* earlier one, children in the order of their numbers
SourceTrees ==
  UNION {{parent \in [1..n -> 0..n] :
            /\ parent[1] = 0
            /\ \A i \in 2..n : parent[i] >= 1 /\ parent[i] < i} : n \in 1..MaxNodes}
RECURSIVE Ascending(_)
Ascending(set) ==
  IF set = {} THEN <<>>
  ELSE LET least == CHOOSE x \in set : \A y \in set : x <= y
       IN <<least>> \o Ascending(set \ {least})
childrenOf(parent) ==
  [node \in AllNodes |->
     IF node.pseudo # "none" THEN <<>>
     ELSE LET kids == Ascending({i \in DOMAIN parent : parent[i] = node.el})
          IN [k \in 1..Len(kids) |-> Node(kids[k], "none")]]
parentNode(children, node) ==
  IF \E host \in AllNodes : \E k \in 1..Len(children[host]) : children[host][k] = node
    THEN CHOOSE host \in AllNodes :
           \E k \in 1..Len(children[host]) : children[host][k] = node
  ELSE NullNode
nextSibling(children, node) ==
  LET host == parentNode(children, node)
  IN IF host = NullNode THEN NullNode
     ELSE LET k == CHOOSE j \in 1..Len(children[host]) : children[host][j] = node
          IN IF k < Len(children[host]) THEN children[host][k + 1] ELSE NullNode
\* TreeWalker.nextNode over the tree as it is now: the first child, or the
\* next sibling of the node or of its closest ancestor below the root
RECURSIVE following(_, _, _)
following(children, root, node) ==
  IF node = root \/ node = NullNode THEN NullNode
  ELSE IF nextSibling(children, node) # NullNode THEN nextSibling(children, node)
  ELSE following(children, root, parentNode(children, node))
nextNode(children, root, current) ==
  IF children[current] # <<>> THEN children[current][1]
  ELSE following(children, root, current)

materializeSinglePseudo(content, children, sourceEl, cloneEl, pseudoType) ==
  IF <<sourceEl.el, pseudoType>> \notin content THEN children
  ELSE LET span == Node(sourceEl.el, pseudoType)
       IN IF pseudoType = "before"
            THEN [children EXCEPT ![cloneEl] = <<span>> \o @]
          ELSE [children EXCEPT ![cloneEl] = Append(@, span)]
materializeBoth(content, children, sourceEl, cloneEl) ==
  materializeSinglePseudo(content,
    materializeSinglePseudo(content, children, sourceEl, cloneEl, "before"),
    sourceEl, cloneEl, "after")
RECURSIVE walkPairs(_, _, _, _, _, _)
walkPairs(content, sourceChildren, children, sourceNode, cloneNode, pairs) ==
  IF sourceNode = NullNode \/ cloneNode = NullNode
    THEN [children |-> children, pairs |-> pairs]
  ELSE LET done == materializeBoth(content, children, sourceNode, cloneNode)
       IN walkPairs(content, sourceChildren, done,
                    nextNode(sourceChildren, Node(1, "none"), sourceNode),
                    nextNode(done, Node(1, "none"), cloneNode),
                    Append(pairs, <<sourceNode, cloneNode>>))
materializePseudoElements(parent, content) ==
  LET root == Node(1, "none")
      sourceChildren == childrenOf(parent)
      done == materializeBoth(content, sourceChildren, root, root)
  IN walkPairs(content, sourceChildren, done,
               nextNode(sourceChildren, root, root), nextNode(done, root, root),
               << <<root, root>> >>)

MaterializeInit ==
  /\ Quiescent
  /\ \E parent \in SourceTrees : \E content \in SUBSET ((DOMAIN parent) \X PseudoTypes) :
       call = [fn |-> "materializePseudoElements", parent |-> parent,
               content |-> content, returned |-> FALSE,
               children |-> childrenOf(parent), pairs |-> <<>>]

materializePseudoElementsCall ==
  /\ call.fn = "materializePseudoElements" /\ ~call.returned
  /\ LET done == materializePseudoElements(call.parent, call.content)
     IN call' = [call EXCEPT !.returned = TRUE, !.children = done.children,
                             !.pairs = done.pairs]
  /\ UNCHANGED sessionVars

MaterializeSpec == MaterializeInit /\ [][materializePseudoElementsCall]_vars

\* ------------------------------------------------- deferred images of a clone
\* getAttribute gives null for an attribute the element does not carry
Absent == "(absent)"
Falsy(value) == value = Absent \/ value = ""
Placeholders == {"data:image/gif;base64,R0lGOD"}
LazyWords == <<<<"l", "a", "z", "y">>, <<"l", "a", "z", "y", "l", "o", "a", "d">>,
               <<"l", "a", "z", "y", "l", "o", "a", "d", "e", "d">>,
               <<"l", "a", "z", "y", "l", "o", "a", "d", "i", "n", "g">>>>
WordChars ==
  {"a", "b", "c", "d", "e", "f", "g", "h", "i", "j", "k",
   "l", "m", "n", "o", "p", "q", "r", "s", "t", "u", "v",
   "w", "x", "y", "z", "0", "1", "2", "3", "4", "5", "6",
   "7", "8", "9", "_"}
ClassTokens ==
  {LazyWords[i] : i \in 1..Len(LazyWords)}
  \cup {<<"h", "e", "r", "o">>, <<"l", "a", "z", "y", "-", "i", "m", "g">>}
ClassLists == UNION {[1..n -> ClassTokens] : n \in 0..MaxClasses}
RECURSIVE classNameOf(_)
classNameOf(tokens) ==
  IF tokens = <<>> THEN <<>>
  ELSE IF Len(tokens) = 1 THEN tokens[1]
  ELSE tokens[1] \o <<" ">> \o classNameOf(Tail(tokens))
\* the length of the lazy word the pattern matches at position i, between
\* two word boundaries, or 0
LazyWordAt(text, i) ==
  LET fits(k) ==
        /\ StartsAt(text, i, LazyWords[k])
        /\ i = 1 \/ text[i - 1] \notin WordChars
        /\ i + Len(LazyWords[k]) > Len(text) \/ text[i + Len(LazyWords[k])] \notin WordChars
  IN IF \E k \in 1..Len(LazyWords) : fits(k)
       THEN Len(LazyWords[CHOOSE k \in 1..Len(LazyWords) :
                            fits(k) /\ \A j \in 1..(k - 1) : ~fits(j)])
     ELSE 0
RECURSIVE stripLazyWords(_, _)
stripLazyWords(text, i) ==
  IF i > Len(text) THEN <<>>
  ELSE IF LazyWordAt(text, i) > 0 THEN stripLazyWords(text, i + LazyWordAt(text, i))
  ELSE <<text[i]>> \o stripLazyWords(text, i + 1)

Images ==
  [dataSrc : {Absent, "", "real.jpg"}, dataLazySrc : {Absent, "lazy.jpg"},
   dataOriginal : {Absent, "original.jpg"},
   src : {Absent, "old.jpg"} \cup Placeholders, dataSrcset : {Absent, "real.jpg 2x"},
   dataLazySrcset : {Absent, "lazy.jpg 2x"}, srcset : {Absent},
   dataSizes : {Absent, "100vw"}, sizes : {Absent},
   loading : {Absent, "lazy", "eager"}, className : {classNameOf(<<LazyWords[1], <<"h", "e", "r", "o">>>>)}]
PlainImage ==
  [dataSrc |-> "real.jpg", dataLazySrc |-> Absent, dataOriginal |-> Absent,
   src |-> Absent, dataSrcset |-> Absent, dataLazySrcset |-> Absent, srcset |-> Absent,
   dataSizes |-> Absent, sizes |-> Absent, loading |-> "lazy", className |-> <<>>]
\* the text of the noscript after the image, if there is one, and the first
\* src="..." in it
Noscripts == {Absent, "<p>no image</p>", "<img src=\"fallback.jpg\">"}
srcMatch(noscript) == IF noscript = "<img src=\"fallback.jpg\">" THEN "fallback.jpg" ELSE Absent
\* the data-srcset of a source inside a picture, if there is one
PictureSources == {Absent, "wide.jpg 2x"}

lazySrcOf_originalFirst(img) ==
  IF ~Falsy(img.dataOriginal) THEN img.dataOriginal
  ELSE IF ~Falsy(img.dataLazySrc) THEN img.dataLazySrc
  ELSE img.dataSrc
lazySrcOf(img) ==
  IF ~Falsy(img.dataSrc) THEN img.dataSrc
  ELSE IF ~Falsy(img.dataLazySrc) THEN img.dataLazySrc
  ELSE img.dataOriginal
resolveImage(img) ==
  LET lazySrcset == IF ~Falsy(img.dataSrcset) THEN img.dataSrcset ELSE img.dataLazySrcset
      promoted == [img EXCEPT
                     !.src = IF ~Falsy(lazySrcOf(img)) THEN lazySrcOf(img) ELSE @,
                     !.srcset = IF ~Falsy(lazySrcset) THEN lazySrcset ELSE @,
                     !.sizes = IF ~Falsy(img.dataSizes) THEN img.dataSizes ELSE @]
  IN [promoted EXCEPT
        !.src = IF promoted.src \in Placeholders /\ ~Falsy(img.dataSrc)
                  THEN img.dataSrc ELSE @,
        !.loading = IF @ = "lazy" THEN Absent ELSE @,
        !.className = trim(stripLazyWords(@, 1))]
resolveLazyImages(img, pictureSource, noscript) ==
  [img |-> [resolveImage(img) EXCEPT
              !.src = IF ~Falsy(srcMatch(noscript)) THEN srcMatch(noscript) ELSE @],
   pictureSrcset |-> pictureSource]

LazyInit ==
  /\ Quiescent
  /\ \/ \E img \in Images, pictureSource \in PictureSources, noscript \in Noscripts :
          call = [fn |-> "resolveLazyImages", before |-> img, img |-> img,
                  pictureSource |-> pictureSource, pictureSrcset |-> Absent,
                  noscript |-> noscript, classes |-> <<LazyWords[1], <<"h", "e", "r", "o">>>>,
                  returned |-> FALSE]
     \/ \E classes \in ClassLists :
          call = [fn |-> "resolveLazyImages",
                  before |-> [PlainImage EXCEPT !.className = classNameOf(classes)],
                  img |-> [PlainImage EXCEPT !.className = classNameOf(classes)],
                  pictureSource |-> Absent, pictureSrcset |-> Absent,
                  noscript |-> Absent, classes |-> classes, returned |-> FALSE]

resolveLazyImagesCall ==
  /\ call.fn = "resolveLazyImages" /\ ~call.returned
  /\ LET done == resolveLazyImages(call.img, call.pictureSource, call.noscript)
     IN call' = [call EXCEPT !.returned = TRUE, !.img = done.img,
                             !.pictureSrcset = done.pictureSrcset]
  /\ UNCHANGED sessionVars

LazySpec == LazyInit /\ [][resolveLazyImagesCall]_vars

\* ------------------------------------------ focus state kept by the background
\* The content script reports every change of isFocusMode to the background
\* with a stateChanged message; the background keeps it per tab.
\* One tab, one content script; `call` holds the background's tabStates, the
\* closures of the updateBackgroundState calls made so far and the stateChanged
\* messages in flight (positions in `updates`, oldest first).
Tab == "tab"
NoTabStates == [t \in {} |-> FALSE]

getTabState(tabStates, tabId) ==
  IF tabId \in DOMAIN tabStates THEN tabStates[tabId] ELSE FALSE

setTabState(tabStates, tabId, active) ==
  IF tabId \in DOMAIN tabStates /\ tabStates[tabId] = active THEN tabStates
  ELSE [t \in (DOMAIN tabStates) \cup {tabId} |->
          IF t = tabId THEN active ELSE tabStates[t]]

\* the three failure branches of attemptStateUpdate do the same
retryStateUpdate_oneMore(u) ==
  IF u.retryCount <= maxRetries
    THEN [u EXCEPT !.retryCount = @ + 1, !.phase = "timer"]
  ELSE [u EXCEPT !.phase = "abandoned"]

retryStateUpdate(u) ==
  IF u.retryCount < maxRetries
    THEN [u EXCEPT !.retryCount = @ + 1, !.phase = "timer"]
  ELSE [u EXCEPT !.phase = "abandoned"]

\* one run of attemptStateUpdate up to the return of sendMessage, which
\* either throws or leaves the message in flight
attemptStateUpdate(u, thrown) ==
  IF thrown THEN retryStateUpdate([u EXCEPT !.sends = @ + 1])
  ELSE [u EXCEPT !.sends = @ + 1, !.phase = "sent"]

InFlight(updates, channel, i, thrown) ==
  IF updates[i].phase = "sent" /\ ~thrown THEN Append(channel, i) ELSE channel

updateBackgroundState(isActive, thrown) ==
  /\ Len(call.updates) < MaxUpdates
  /\ currentStateActive' = isActive
  /\ LET u == attemptStateUpdate([isActive |-> isActive, retryCount |-> 0,
                                  sends |-> 0, phase |-> "new"], thrown)
         updates == Append(call.updates, u)
     IN call' = [call EXCEPT !.updates = updates,
                   !.channel = InFlight(updates, @, Len(updates), thrown)]

sessionRest ==
  <<page, isSelectionMode, selectedElement, overlayElement, focusContainer,
    shadowRoot, maxDepth, fetchedCSSTexts, styleCache, headFonts, bodyClass,
    docOverlays, docContainers, sessions, shadow, remaining, collected,
    pending, sent, callbackCount, callbackArg, callbackSync, completionSteps,
    settleLog, clone, captureLog>>

SyncInit ==
  /\ Quiescent
  /\ call = [fn |-> "stateChanged", tabStates |-> NoTabStates, updates |-> <<>>,
             channel |-> <<>>]

\* enterFocusMode as far as the background is concerned
focusEntered ==
  /\ call.fn = "stateChanged" /\ ~isFocusMode
  /\ isFocusMode' = TRUE
  /\ \E thrown \in BOOLEAN : updateBackgroundState(TRUE, thrown)
  /\ UNCHANGED sessionRest

\* exitFocusMode as far as the background is concerned
focusExited ==
  /\ call.fn = "stateChanged" /\ isFocusMode
  /\ isFocusMode' = FALSE
  /\ \E thrown \in BOOLEAN : updateBackgroundState(FALSE, thrown)
  /\ UNCHANGED sessionRest

\* the interval timer of the content script
verifyStateConsistency ==
  /\ call.fn = "stateChanged"
  /\ IF currentStateActive # isFocusMode
       THEN \E thrown \in BOOLEAN : updateBackgroundState(isFocusMode, thrown)
     ELSE UNCHANGED <<currentStateActive, call>>
  /\ UNCHANGED <<isFocusMode, sessionRest>>

\* the background's onMessage listener takes the oldest stateChanged message
\* and its response reaches the callback of sendMessage
stateChangedHandled ==
  /\ call.fn = "stateChanged" /\ call.channel # <<>>
  /\ LET i == Head(call.channel)
     IN call' = [call EXCEPT
                   !.tabStates = setTabState(@, Tab, call.updates[i].isActive),
                   !.channel = Tail(@),
                   !.updates[i].phase = "succeeded"]
  /\ UNCHANGED <<isFocusMode, currentStateActive, sessionRest>>

\* the callback runs with lastError set or without a successful response:
\* the message found no listener, or the listener ran and its response was lost
stateChangedFailed ==
  /\ call.fn = "stateChanged" /\ call.channel # <<>>
  /\ \E handled \in BOOLEAN :
       LET i == Head(call.channel)
       IN call' = [call EXCEPT
                     !.tabStates = IF handled
                                     THEN setTabState(@, Tab, call.updates[i].isActive)
                                   ELSE @,
                     !.channel = Tail(@),
                     !.updates[i] = retryStateUpdate(@)]
  /\ UNCHANGED <<isFocusMode, currentStateActive, sessionRest>>

\* a timer set by a failure branch fires
retryTimer ==
  /\ call.fn = "stateChanged"
  /\ \E i \in 1..Len(call.updates), thrown \in BOOLEAN :
       /\ call.updates[i].phase = "timer"
       /\ LET updates == [call.updates EXCEPT ![i] = attemptStateUpdate(@, thrown)]
          IN call' = [call EXCEPT !.updates = updates,
                        !.channel = InFlight(updates, @, i, thrown)]
  /\ UNCHANGED <<isFocusMode, currentStateActive, sessionRest>>

SyncNext ==
  \/ focusEntered
  \/ focusExited
  \/ verifyStateConsistency
  \/ stateChangedHandled
  \/ stateChangedFailed
  \/ retryTimer

SyncSpec == SyncInit /\ [][SyncNext]_vars

\* ------------------------------------------------ injection of the content script
\* One tab. `call` holds the background's injectedTabs, the injectAndActivate
\* calls suspended at each await, and per page load of the tab (a document):
\* how often the content script ran in it and how often each of its three
\* initialisations happened. window.__zenReaderInjected belongs to the document.
NoRuns == [load \in 1..MaxLoads |-> 0]
NoInits == [styleCache |-> 0, messageHandler |-> 0, keydown |-> 0]

\* the entry of the content script, run in document `load`
contentEntry_unguarded(c, load) ==
  [c EXCEPT !.runs[load] = @ + 1,
            !.injected[load] = TRUE,
            !.inits[load] = [styleCache |-> @.styleCache + 1,
                             messageHandler |-> @.messageHandler + 1,
                             keydown |-> @.keydown + 1]]

contentEntry(c, load) ==
  IF ~c.injected[load]
    THEN [c EXCEPT !.runs[load] = @ + 1,
                   !.injected[load] = TRUE,
                   !.inits[load] = [styleCache |-> @.styleCache + 1,
                                    messageHandler |-> @.messageHandler + 1,
                                    keydown |-> @.keydown + 1]]
  ELSE [c EXCEPT !.runs[load] = @ + 1]

InjectInit ==
  /\ Quiescent
  /\ call = [fn |-> "injectAndActivate", injectedTabs |-> {},
             tabStates |-> NoTabStates, triggers |-> 0, load |-> 1,
             awaitingCSS |-> 0, awaitingScript |-> 0, activations |-> 0,
             runs |-> NoRuns,
             injected |-> [load \in 1..MaxLoads |-> FALSE],
             inits |-> [load \in 1..MaxLoads |-> NoInits]]

\* a click on the icon, the keyboard command or the context menu entry:
\* injectAndActivate up to its first await, or to its end
injectAndActivate ==
  /\ call.fn = "injectAndActivate" /\ call.triggers < MaxTriggers
  /\ IF Tab \notin call.injectedTabs
       THEN call' = [call EXCEPT !.triggers = @ + 1, !.awaitingCSS = @ + 1]
     ELSE call' = [call EXCEPT !.triggers = @ + 1, !.activations = @ + 1]
  /\ UNCHANGED sessionVars

\* chrome.scripting.insertCSS settles for one suspended call
insertCSSSettled ==
  /\ call.fn = "injectAndActivate" /\ call.awaitingCSS > 0
  /\ \E ok \in BOOLEAN :
       IF ok THEN call' = [call EXCEPT !.awaitingCSS = @ - 1, !.awaitingScript = @ + 1]
       ELSE call' = [call EXCEPT !.awaitingCSS = @ - 1]
  /\ UNCHANGED sessionVars

\* chrome.scripting.executeScript settles for one suspended call: the script
\* ran in the tab's current document, then the call goes on to its end
executeScriptSettled ==
  /\ call.fn = "injectAndActivate" /\ call.awaitingScript > 0
  /\ \E ok \in BOOLEAN :
       IF ok
         THEN call' = [contentEntry(call, call.load) EXCEPT
                         !.awaitingScript = @ - 1,
                         !.injectedTabs = @ \cup {Tab},
                         !.activations = @ + 1]
       ELSE call' = [call EXCEPT !.awaitingScript = @ - 1]
  /\ UNCHANGED sessionVars

\* chrome.tabs.onUpdated with status 'loading' and a url: a navigation to a
\* new document, or a change of the url within the same document
tabUpdated ==
  /\ call.fn = "injectAndActivate"
  /\ \E sameDocument \in BOOLEAN :
       /\ sameDocument \/ call.load < MaxLoads
       /\ call' = [call EXCEPT
                     !.tabStates = setTabState(@, Tab, FALSE),
                     !.injectedTabs = @ \ {Tab},
                     !.load = IF sameDocument THEN @ ELSE @ + 1]
  /\ UNCHANGED sessionVars

\* a reload of the same url: a new document, and onUpdated carries no url
tabReloaded ==
  /\ call.fn = "injectAndActivate" /\ call.load < MaxLoads
  /\ call' = [call EXCEPT !.load = @ + 1]
  /\ UNCHANGED sessionVars

InjectNext ==
  \/ injectAndActivate
  \/ insertCSSSettled
  \/ executeScriptSettled
  \/ tabUpdated
  \/ tabReloaded

InjectSpec == InjectInit /\ [][InjectNext]_vars

\* --------------------------------------------- fetchCSS in the background
\* The fetchCSS messages of one session, one per cross-origin stylesheet.
\* What the server of a stylesheet does decides which awaits of
\* fetchCSSFromBackground settle:
\*   ok           headers with a 2xx status, then the whole body
\*   httpError    headers with another status
\*   networkError the request fails
\*   silent       nothing ever arrives
\*   stalledBody  headers with a 2xx status, then a body that never ends
\*   brokenBody   headers with a 2xx status, then the connection breaks
Servers == {"ok", "httpError", "networkError", "silent", "stalledBody", "brokenBody"}
Fetches == 1..MaxFetches

FetchInit ==
  /\ Quiescent
  /\ \E servers \in [Fetches -> Servers] :
       call = [fn |-> "fetchCSS",
               jobs |-> [i \in Fetches |->
                           [server |-> servers[i], phase |-> "sent", timer |-> FALSE,
                            responses |-> 0, success |-> FALSE, received |-> FALSE]],
               remaining |-> MaxFetches, callbackCount |-> 0]

\* sendResponse and the end of fetchCSSFromBackground
sendResponse(job, success) ==
  [job EXCEPT !.phase = "returned", !.responses = @ + 1, !.success = success]

\* the onMessage listener: fetchCSSFromBackground up to `await fetch`
fetchCSSReceived(i) ==
  /\ call.fn = "fetchCSS" /\ call.jobs[i].phase = "sent"
  /\ UNCHANGED sessionVars
  /\ call' = [call EXCEPT !.jobs[i].phase = "fetching", !.jobs[i].timer = TRUE]

\* `await fetch` settles by itself
fetchSettled(i) ==
  /\ call.fn = "fetchCSS" /\ call.jobs[i].phase = "fetching"
  /\ UNCHANGED sessionVars
  /\ call.jobs[i].server # "silent"
  /\ LET job == call.jobs[i]
     IN IF job.server = "networkError"
          THEN call' = [call EXCEPT !.jobs[i] = sendResponse([job EXCEPT !.timer = FALSE], FALSE)]
        ELSE IF job.server = "httpError"
          THEN call' = [call EXCEPT !.jobs[i] = sendResponse([job EXCEPT !.timer = FALSE], FALSE)]
        ELSE call' = [call EXCEPT !.jobs[i].timer = FALSE, !.jobs[i].phase = "reading"]

\* the 3 second timer fires: controller.abort() rejects the pending await
timeoutFired(i) ==
  /\ call.fn = "fetchCSS" /\ call.jobs[i].timer
  /\ UNCHANGED sessionVars
  /\ call.jobs[i].phase \in {"fetching", "reading"}
  /\ call' = [call EXCEPT !.jobs[i] = sendResponse([@ EXCEPT !.timer = FALSE], FALSE)]

\* `await response.text()` settles
bodySettled(i) ==
  /\ call.fn = "fetchCSS" /\ call.jobs[i].phase = "reading"
  /\ UNCHANGED sessionVars
  /\ call.jobs[i].server \in {"ok", "brokenBody"}
  /\ call' = [call EXCEPT !.jobs[i] = sendResponse(@, @.server = "ok")]

\* the callback of sendMessage in the content script, then `done` of
\* fetchCrossOriginSheets
fetchCSSResponse(i) ==
  /\ call.fn = "fetchCSS" /\ call.jobs[i].responses > 0
  /\ UNCHANGED sessionVars /\ ~call.jobs[i].received
  /\ call' = [call EXCEPT !.jobs[i].received = TRUE,
                          !.remaining = @ - 1,
                          !.callbackCount = IF call.remaining = 1 THEN @ + 1 ELSE @]

FetchNext ==
  \/ \E i \in Fetches : fetchCSSReceived(i)
  \/ \E i \in Fetches : fetchSettled(i)
  \/ \E i \in Fetches : timeoutFired(i)
  \/ \E i \in Fetches : bodySettled(i)
  \/ \E i \in Fetches : fetchCSSResponse(i)

FetchSpec == FetchInit /\ [][FetchNext]_vars

\* ----------------------------------------------------------------- claims
Started(s) == s \in 1..sessions
AllSettled(s) == Started(s) /\ Len(settleLog[s]) = page.cross
\* a request succeeded when its response delivered rule text
Succeeded(entry) == entry.text # <<>>
SucceededTexts(s) ==
  LET ok == SelectSeq(settleLog[s], Succeeded)
  IN [i \in 1..Len(ok) |-> ok[i].text]
BlocksOf(s, kind, phase) ==
  {i \in 1..Len(shadow[s]) : shadow[s][i].kind = kind /\ shadow[s][i].phase = phase}
Occurrences(text, sub) ==
  Cardinality({i \in 1..(Len(text) - Len(sub) + 1) :
                 SubSeq(text, i, i + Len(sub) - 1) = sub})

\* C1: for every session the completion callback is never invoked a second
\* time, and it has been invoked, once, as soon as all of the session's
\* requests have settled, whatever their outcomes and order.
C1_CallbackExactlyOnce ==
  \A s \in Sessions :
    /\ callbackCount[s] <= 1
    /\ AllSettled(s) => callbackCount[s] = 1

C1_Witness ==
  \E s \in Sessions :
    /\ AllSettled(s) /\ page.cross = 2 /\ ~callbackSync[s]
    /\ callbackCount[s] = 1
    /\ Succeeded(settleLog[s][2]) /\ ~Succeeded(settleLog[s][1])

\* C2: the list handed to the completion callback holds exactly the texts of the
\* requests that succeeded, one per successful request in the order they
\* settled, and nothing for a request that failed.
C2_CallbackListIsSuccesses ==
  \A s \in Sessions :
    callbackCount[s] >= 1 => callbackArg[s] = SucceededTexts(s)

C2_Witness ==
  \E s \in Sessions :
    /\ callbackCount[s] = 1 /\ Len(settleLog[s]) = 2
    /\ Succeeded(settleLog[s][1]) /\ ~Succeeded(settleLog[s][2])
    /\ settleLog[s][1].req = 2
    /\ Len(callbackArg[s]) = 1

\* C3: a session on a page without cross-origin sheets has had its completion
\* callback invoked, with the empty list, inside the call of
\* addStylesToShadowDOM, and has sent no fetchCSS message.
C3_NoUrlsSynchronousCallback ==
  \A s \in Sessions :
    (Started(s) /\ page.cross = 0) =>
      /\ callbackCount[s] = 1
      /\ callbackSync[s]
      /\ callbackArg[s] = <<>>
      /\ sent[s] = 0 /\ pending[s] = {}

C3_Witness ==
  /\ isFocusMode /\ page.cross = 0
  /\ callbackCount[sessions] = 1 /\ fetchedCSSTexts = <<>>

\* C4: a response that reaches a session which is no longer the active one
\* leaves state.fetchedCSSTexts and the host marker block as they were and
\* changes no other session's shadow root.
C4_StaleResultsDiscarded ==
  [][\A s \in Sessions :
       (Started(s) /\ pending'[s] # pending[s] /\ shadowRoot # s) =>
         /\ fetchedCSSTexts' = fetchedCSSTexts
         /\ headFonts' = headFonts
         /\ \A o \in Sessions \ {s} : shadow'[o] = shadow[o]]_vars

\* C5 as claimed: in every shadow root every style block of the synchronous
\* phase precedes every block of the asynchronous phase.
C5_SyncBeforeAsync ==
  \A s \in Sessions : \A i, j \in 1..Len(shadow[s]) :
    (/\ shadow[s][i].phase = "sync" /\ shadow[s][i].kind # "container"
     /\ shadow[s][j].phase = "async") => i < j

\* C5 as amended: every style block of the synchronous phase precedes every
\* fetched rule block, link fallback and recovered font-face block; a
\* custom-property block, first or rebuilt, is the second child of the shadow root.
C5_SyncBeforeAppended ==
  \A s \in Sessions : \A i, j \in 1..Len(shadow[s]) :
    /\ (/\ shadow[s][i].phase = "sync" /\ shadow[s][i].kind # "container"
        /\ shadow[s][j].phase = "async" /\ shadow[s][j].kind # "customProps") => i < j
    /\ shadow[s][i].kind = "customProps" => i = 2 /\ shadow[s][1].kind = "base"

C5_Witness ==
  \E s \in Sessions :
    /\ BlocksOf(s, "customProps", "async") # {}
    /\ BlocksOf(s, "fetched", "async") # {}
    /\ BlocksOf(s, "link", "async") # {}
    /\ BlocksOf(s, "fontFace", "async") # {}
    /\ BlocksOf(s, "fontFace", "sync") # {}

\* C6: no shadow root ever holds more than one custom-property block.
C6_OneCustomPropsBlock ==
  \A s \in Sessions :
    Cardinality({i \in 1..Len(shadow[s]) : shadow[s][i].kind = "customProps"}) <= 1

C6_Witness ==
  \E s \in Sessions :
    /\ callbackCount[s] = 1 /\ ~callbackSync[s]
    /\ BlocksOf(s, "customProps", "async") # {}
    /\ BlocksOf(s, "customProps", "sync") = {}

\* C7: no font-face rule text occurs more than once in the host marker block.
C7_MarkerHasNoDuplicate ==
  headFonts # NoText =>
    \A rule \in {FontA, FontB} : Occurrences(headFonts, rule) <= 1

\* C8: outside focus mode the snapshot cache is empty; in focus mode every
\* snapshot in it, and every snapshot the cloner read, was recorded by the
\* current session's capture pass, which queried no element twice.
C8_CacheIsPerSession ==
  /\ ~isFocusMode => styleCache = EmptyCache
  /\ isFocusMode =>
       /\ \A e \in Elements : styleCache[e] \in {0, sessions}
       /\ \A e \in Elements : clone.reads[e] \in {-1, 0, sessions}
       /\ {e \in Elements : styleCache[e] # 0}
            = {captureLog[i] : i \in 1..Len(captureLog)}
       /\ \A i, j \in 1..Len(captureLog) : captureLog[i] = captureLog[j] => i = j

C8_Witness ==
  /\ isFocusMode /\ sessions = 2
  /\ clone.reads[0] = 2 /\ styleCache[1] = 2

\* C9: neither the capture pass nor the cloner touches an element that lies
\* more than maxDepth levels below the selected root.
C9_NothingBeyondCeiling ==
  isFocusMode =>
    \A e \in Elements :
      (styleCache[e] # 0 \/ clone.reads[e] # -1 \/ e \in clone.styled)
        => Level(e) <= maxDepth

\* C10: the depth ceiling of a session is 50 for an estimate below 100, 20 for
\* one from 100 to 1000 and 10 above, no estimate up to 2000 that is larger
\* gets a larger ceiling and none that is smaller a smaller one, and the
\* ceiling does not change while the session lasts.
C10_CeilingMonotoneAndFixed ==
  /\ [](isFocusMode =>
          LET a == estimateTreeSize(selectedElement, 2000)
          IN /\ maxDepth = IF a < 100 THEN 50 ELSE IF a <= 1000 THEN 20 ELSE 10
             /\ \A b \in 0..2000 :
                  /\ a <= b => maxDepth >= DepthCeiling(b)
                  /\ b <= a => DepthCeiling(b) >= maxDepth)
  /\ [][(isFocusMode /\ isFocusMode') => maxDepth' = maxDepth]_vars

C10_Witness ==
  /\ isFocusMode /\ maxDepth = 10
  /\ selectedElement.bulk > 2000
  /\ estimateTreeSize(selectedElement, 2000) = 2000

Min(a, b) == IF a <= b THEN a ELSE b

\* C11: a returned call of estimateTreeSize gave the smaller of cap and the
\* number of descendants of the element (the element not counted), 0 for a
\* missing element, after the walker handed out no more than cap nodes; the
\* closed form used for the session's estimate gives the same number.
C11_EstimateIsCappedCount ==
  (call.fn = "estimateTreeSize" /\ call.returned) =>
    IF call.element = NoElement
      THEN call.result = 0 /\ call.visited = 0
    ELSE LET descendants == call.element.chain + call.element.bulk
         IN /\ call.result = Min(call.cap, descendants)
            /\ call.visited = Min(call.cap, descendants)
            /\ call.result = estimateTreeSize(call.element, call.cap)

C11_Witness ==
  /\ call.fn = "estimateTreeSize" /\ call.returned
  /\ call.element # NoElement
  /\ call.element.chain + call.element.bulk > call.cap
  /\ call.result = call.cap /\ call.cap > 1

\* C12: the clone of a source element that isPossibleTagElement classifies as
\* tag-like carries no width: 100% declaration, whatever its tag name and
\* whether it is the root or a descendant.
C12_TagLikeNeverForcedWidth ==
  (/\ call.fn = "applyComputedStylesToElement" /\ call.returned
   /\ isPossibleTagElement(call.source))
    => call.style["width"].value # "100%"

\* C13: the clone of a root with a usable text colour carries width 100%,
\* max-width 100%, box-sizing border-box and zero left and right padding and
\* margin, each at important strength.
C13_RootOverridesStayImportant ==
  (/\ call.fn = "applyComputedStylesToElement" /\ call.returned
   /\ call.isTopLevel /\ call.source.color # "")
    => /\ call.style["width"] = [value |-> "100%", important |-> TRUE]
       /\ call.style["max-width"] = [value |-> "100%", important |-> TRUE]
       /\ call.style["box-sizing"] = [value |-> "border-box", important |-> TRUE]
       /\ call.style["padding-left"] = [value |-> "0", important |-> TRUE]
       /\ call.style["padding-right"] = [value |-> "0", important |-> TRUE]
       /\ call.style["margin-left"] = [value |-> "0", important |-> TRUE]
       /\ call.style["margin-right"] = [value |-> "0", important |-> TRUE]

Parsed == call.fn = "parsePseudoContent" /\ call.returned
QuotedOnly == Len(call.parts) = 1 /\ call.parts[1].kind = "quoted"
HasToken(part, token) == \E i \in 1..Len(part.tokens) : part.tokens[i] = token
IsBlank(text) == \A i \in 1..Len(text) : IsSpace(text[i])
\* what a token of a quoted string stands for; dropped lists the escapes that
\* decode to nothing
Meaning(token, dropped) ==
  CASE token = EscapeA -> <<"\n">>
    [] token = Escape2022 -> <<Bullet>>
    [] token = Escape00a0 -> <<Nbsp>>
    [] token = EscapeBackslash -> <<Backslash>>
    [] token \in dropped -> <<>>
    [] OTHER -> token
Decoded(tokens, dropped) ==
  Flatten([i \in 1..Len(tokens) |-> Meaning(tokens[i], dropped)])

\* C14: a quoted string (without a url() form inside) whose body is empty or
\* only whitespace, or decodes to the empty string, parses to no content,
\* every other one to a text descriptor; none, normal, the empty string and
\* an unrecognised value parse to no content.
C14_QuotedStringTextOrNothing ==
  Parsed =>
    /\ (QuotedOnly /\ ~HasToken(call.parts[1], UrlToken)) =>
         LET body == Flatten(call.parts[1].tokens)
         IN IF IsBlank(body) \/ Decoded(call.parts[1].tokens, {EscapeE}) = <<>>
              THEN call.parsed = NoContent
            ELSE call.parsed.type = "text"
    /\ (call.parts = <<>> \/ (Len(call.parts) = 1 /\ call.parts[1].kind = "word"))
         => call.parsed = NoContent

\* the path of the first url() form among the parts of a value
RECURSIVE FirstUrlPath(_)
FirstUrlPath(parts) ==
  IF parts = <<>> THEN NoMatch
  ELSE IF parts[1].kind = "url" THEN Flatten(parts[1].tokens)
  ELSE FirstUrlPath(Tail(parts))
HasKind(parts, kind) == \E i \in 1..Len(parts) : parts[i].kind = kind

\* C15: the forms are tried in the order url, counter, attr, quoted string and
\* the first that applies decides: url(p), url('p') and url("p") give the
\* image descriptor with path p, a counter form the empty counter descriptor,
\* an attr form the empty text descriptor, and a quoted string is parsed as
\* a text descriptor.
C15_FirstFormDecides ==
  Parsed =>
    LET path == FirstUrlPath(call.parts)
    IN IF path # NoMatch THEN call.parsed = [type |-> "image", value |-> path]
       ELSE IF HasKind(call.parts, "counter")
         THEN call.parsed = [type |-> "counter", value |-> <<>>]
       ELSE IF HasKind(call.parts, "attr")
         THEN call.parsed = [type |-> "text", value |-> <<>>]
       ELSE (QuotedOnly /\ ~IsBlank(Flatten(call.parts[1].tokens)))
              => call.parsed.type = "text"

\* C16: the text of a quoted string is its body with \a read as a newline,
\* \2022 as a bullet, \00a0 as a no-break space and an escaped backslash as
\* one backslash, and with nothing else changed.
C16_DecodesFixedEscapesOnly ==
  (Parsed /\ QuotedOnly /\ ~HasToken(call.parts[1], UrlToken)
     /\ call.parsed.type = "text")
    => call.parsed.value = Decoded(call.parts[1].tokens, {})

\* C17: every source element is paired with its own counterpart in the clone,
\* every ::before span is the first child and every ::after span the last
\* child of the counterpart of its element, and no span is visited as a
\* clone element.
C17_PairsStayStructural ==
  (call.fn = "materializePseudoElements" /\ call.returned) =>
    /\ \A i \in DOMAIN call.parent :
         \E k \in 1..Len(call.pairs) :
           call.pairs[k] = <<Node(i, "none"), Node(i, "none")>>
    /\ \A k \in 1..Len(call.pairs) : call.pairs[k][2].pseudo = "none"
    /\ \A item \in call.content :
         LET kids == call.children[Node(item[1], "none")]
         IN /\ kids # <<>>
            /\ item[2] = "before" => kids[1] = Node(item[1], "before")
            /\ item[2] = "after" => kids[Len(kids)] = Node(item[1], "after")

Resolved == call.fn = "resolveLazyImages" /\ call.returned
FirstPresent(img) ==
  IF img.dataSrc # Absent THEN img.dataSrc
  ELSE IF img.dataLazySrc # Absent THEN img.dataLazySrc
  ELSE img.dataOriginal
FirstNonEmpty(img) ==
  IF ~Falsy(img.dataSrc) THEN img.dataSrc
  ELSE IF ~Falsy(img.dataLazySrc) THEN img.dataLazySrc
  ELSE IF ~Falsy(img.dataOriginal) THEN img.dataOriginal
  ELSE Absent

SplitAt(text, sep) ==
  LET cuts == {0, Len(text) + 1} \cup {i \in 1..Len(text) : text[i] = sep}
  IN {SubSeq(text, a + 1, b - 1) :
        <<a, b>> \in {pair \in cuts \X cuts :
                        /\ pair[1] < pair[2]
                        /\ \A c \in cuts : ~(pair[1] < c /\ c < pair[2])}} \ {<<>>}
IsLazyWord(token) == \E k \in 1..Len(LazyWords) : LazyWords[k] = token

\* C19: the class tokens of an image after the call are its tokens before
\* without lazy, lazyload, lazyloaded and lazyloading, every other token
\* still there and unchanged.
C19_OnlyLazyTokensRemoved ==
  Resolved =>
    SplitAt(call.img.className, " ")
      = {token \in SplitAt(call.before.className, " ") : ~IsLazyWord(token)}

Idle == ~isSelectionMode /\ ~isFocusMode
FocusEnded ==
  /\ ~isFocusMode' /\ ~isSelectionMode'
  /\ ~overlayElement' /\ ~focusContainer'
  /\ docOverlays' = 0 /\ docContainers' = 0 /\ ~bodyClass'

\* C20: an 'activate' message starts selection mode from idle and changes
\* nothing in selection mode; Escape in selection mode ends it without
\* entering focus mode; a click in selection mode ends it and enters focus
\* mode; Escape, the exit button, a click on the overlay and an 'activate'
\* message each end focus mode, with the overlay and the focus container
\* removed and the body class cleared.
C20_ModeSwitchTransitions ==
  [][/\ (Activate /\ Idle) => (isSelectionMode' /\ ~isFocusMode')
     /\ (Activate /\ isSelectionMode) => UNCHANGED vars
     /\ (handleKeyDown /\ isSelectionMode) => (~isSelectionMode' /\ ~isFocusMode')
     /\ handleElementSelection => (~isSelectionMode' /\ isFocusMode')
     /\ ((Activate \/ handleKeyDown \/ ExitClick) /\ isFocusMode) => FocusEnded]_vars

C20_Witness ==
  /\ sessions >= 1 /\ isSelectionMode /\ ~isFocusMode
  /\ docOverlays = 0 /\ docContainers = 0 /\ ~bodyClass

\* C22: selection mode and focus mode are never both on, the document never
\* holds more than one overlay or more than one focus container, and a call
\* of enterFocusMode while focus mode is on changes nothing.
C22_OneSessionAtATime ==
  /\ [](/\ ~(isSelectionMode /\ isFocusMode)
        /\ docOverlays <= 1 /\ docContainers <= 1)
  /\ [][(isFocusMode /\ enterFocusModeCall) => UNCHANGED vars]_vars

C22_Witness ==
  /\ sessions = MaxSessions /\ isFocusMode /\ ~isSelectionMode
  /\ docOverlays = 1 /\ docContainers = 1

SettledAs(s, r, ok) ==
  \E i \in 1..Len(settleLog[s]) :
    settleLog[s][i].req = r /\ Succeeded(settleLog[s][i]) = ok
LinksTo(s, r) ==
  {i \in 1..Len(shadow[s]) : shadow[s][i] = Block("link", "async", <<UrlNames[r]>>)}
FetchedBlocks(s) ==
  LET at == SelectSeq(shadow[s], LAMBDA b : b.kind = "fetched")
  IN [i \in 1..Len(at) |-> at[i].text]

\* C23: in every session each cross-origin URL has settled at most once;
\* a URL that settled with rule text has one style block with that text and
\* no link, a URL that settled any other way has one link to it and no
\* style block, and a URL that has not settled has neither.
C23_OneNodePerSettledRequest ==
  \A s \in Sessions : Started(s) =>
    /\ \A i, j \in 1..Len(settleLog[s]) :
         settleLog[s][i].req = settleLog[s][j].req => i = j
    /\ remaining[s] = page.cross - Len(settleLog[s])
    /\ FetchedBlocks(s) = SucceededTexts(s)
    /\ \A r \in 1..page.cross :
         Cardinality(LinksTo(s, r)) = IF SettledAs(s, r, FALSE) THEN 1 ELSE 0

C23_Witness ==
  \E s \in Sessions :
    /\ AllSettled(s) /\ page.cross = 2
    /\ SettledAs(s, 1, TRUE) /\ SettledAs(s, 2, FALSE)
    /\ Len(FetchedBlocks(s)) = 1
    /\ Cardinality(LinksTo(s, 2)) = 1 /\ LinksTo(s, 1) = {}

HasFontFace(s) ==
  \E i \in 1..Len(callbackArg[s]) : extractFontFaceRules(callbackArg[s][i]) # <<>>

\* C24: in a session with cross-origin requests nothing of the completion
\* has happened while a request is outstanding; once all have settled, with
\* their blocks and links appended, the custom-property block was rebuilt,
\* then the font-face rules found in the fetched texts were injected, then
\* the completion callback was invoked, each once and in that order.
C24_CompletionAfterAllSettled ==
  \A s \in Sessions : (Started(s) /\ page.cross > 0) =>
    IF AllSettled(s) /\ pending[s] = {}
      THEN /\ completionSteps[s] =
                IF HasFontFace(s)
                  THEN <<"injectCSSCustomProperties", "injectFontFaces",
                         "onCrossOriginComplete">>
                ELSE <<"injectCSSCustomProperties", "onCrossOriginComplete">>
           /\ Len(FetchedBlocks(s)) + Cardinality(BlocksOf(s, "link", "async"))
                = page.cross
    ELSE /\ completionSteps[s] = <<>>
         /\ callbackCount[s] = 0
         /\ BlocksOf(s, "customProps", "async") = {}
         /\ BlocksOf(s, "fontFace", "async") = {}

C24_Witness ==
  \E s \in Sessions :
    /\ page.cross = 2 /\ AllSettled(s) /\ ~callbackSync[s]
    /\ completionSteps[s] = <<"injectCSSCustomProperties", "injectFontFaces",
                              "onCrossOriginComplete">>

\* elements without a usable text colour, of every tag, as root and as
\* descendant, with margins, padding and a display the cloner would copy
ColourlessElements ==
  {[tagName |-> tag, classWords |-> {"tag", "pill"}, parentWords |-> {},
    textLength |-> 5, hashtag |-> FALSE, children |-> 3, color |-> "",
    display |-> "inline-block", backgroundColor |-> "rgb(238, 238, 238)",
    margin |-> "0px 20px", padding |-> "0px 16px", offsetWidth |-> WideTable + 1] :
     tag \in TagNames}

\* C26: an element without a usable text colour gets no declaration and no
\* data-zenreader-styled mark on its clone, the session goes on, and its
\* children within the depth bound are still visited.
C26_ColourlessSkippedChildrenVisited ==
  /\ \A el \in ColourlessElements, top \in BOOLEAN :
       StyleOverrides(el, top, EmptyStyle) = EmptyStyle
  /\ (isFocusMode /\ sessions >= 1) =>
       \A e \in selectedElement.colorless :
         /\ e \notin clone.styled
         /\ clone.present /\ overlayElement /\ focusContainer
         /\ \A i \in 1..Len(ChildrenOf(selectedElement, e)) :
              Level(ChildrenOf(selectedElement, e)[i]) <= maxDepth
                => clone.reads[ChildrenOf(selectedElement, e)[i]] # -1

C26_Witness ==
  /\ isFocusMode /\ selectedElement.colorless = {1}
  /\ selectedElement.chain = MaxChain
  /\ clone.reads[1] # -1 /\ 1 \notin clone.styled
  /\ clone.reads[2] # -1 /\ 2 \in clone.styled

\* C27: a tag-like element that is not the root ends, whatever its tag name,
\* with the display declaration of its clone equal to the computed display of
\* the source, at important strength.
C27_TagDisplayKeptImportant ==
  (/\ call.fn = "applyComputedStylesToElement" /\ call.returned
   /\ ~call.isTopLevel /\ call.source.color # ""
   /\ isPossibleTagElement(call.source))
    => call.style["display"] = [value |-> call.source.display, important |-> TRUE]

\* C28: every element the cloner read a style for was recorded by the capture
\* pass of the same session, so the cloner made no live style query.
C28_ClonerReadsOnlySnapshots ==
  (isFocusMode /\ clone.present) =>
    \A e \in Elements :
      clone.reads[e] # -1 => (styleCache[e] = sessions /\ clone.reads[e] = sessions)

\* C29: one call of updateBackgroundState sends at most four stateChanged
\* messages, the first and at most three retries; once an attempt has
\* succeeded, or the third retry has failed, the call does nothing more.
C29_AtMostFourSends ==
  /\ [](call.fn = "stateChanged" =>
          \A i \in 1..Len(call.updates) :
            LET u == call.updates[i]
            IN /\ u.sends <= 1 + maxRetries
               /\ u.retryCount <= maxRetries
               /\ (u.phase = "timer" => u.sends = u.retryCount)
               /\ (u.phase # "timer" => u.sends = u.retryCount + 1))
  /\ [][call.fn = "stateChanged" =>
          \A i \in 1..Len(call.updates) :
            call.updates[i].phase \in {"succeeded", "abandoned"}
              => call'.updates[i] = call.updates[i]]_vars

C29_Witness ==
  /\ call.fn = "stateChanged"
  /\ \E i \in 1..Len(call.updates) :
       call.updates[i].phase = "abandoned" /\ call.updates[i].sends = 1 + maxRetries
  /\ \E i \in 1..Len(call.updates) :
       call.updates[i].phase = "succeeded" /\ call.updates[i].sends = 2

\* C21: when no stateChanged message is in flight and every call of
\* updateBackgroundState has ended with a delivered message, the background's
\* tabStates entry of the tab equals the content script's isFocusMode.
C21_TabStateAgrees ==
  (/\ call.fn = "stateChanged"
   /\ call.channel = <<>>
   /\ \A i \in 1..Len(call.updates) : call.updates[i].phase = "succeeded")
    => getTabState(call.tabStates, Tab) = isFocusMode

\* C30: in one page load of a tab the content script initialises the style
\* cache, the message listener and the key listener at most once each,
\* however often the script is executed in that document.
C30_InitialisedAtMostOnce ==
  call.fn = "injectAndActivate" =>
    \A load \in 1..MaxLoads :
      /\ call.inits[load].styleCache <= 1
      /\ call.inits[load].messageHandler <= 1
      /\ call.inits[load].keydown <= 1

C30_Witness ==
  /\ call.fn = "injectAndActivate"
  /\ \E load \in 1..MaxLoads :
       call.runs[load] >= 2 /\ call.inits[load].messageHandler = 1

\* something can still happen to the i-th fetchCSS message
CanStep(i) ==
  ENABLED (\/ fetchCSSReceived(i) \/ fetchSettled(i) \/ timeoutFired(i)
           \/ bodySettled(i) \/ fetchCSSResponse(i))

\* C25: fetchCSSFromBackground never sends two responses to one fetchCSS
\* message, and when nothing more can happen to a message it has sent one;
\* when nothing more can happen to any message of the session, the session's
\* completion callback has run.
C25_OneResponsePerMessage ==
  call.fn = "fetchCSS" =>
    /\ \A i \in Fetches :
         /\ call.jobs[i].responses <= 1
         /\ (~CanStep(i)) => call.jobs[i].responses = 1
    /\ (\A i \in Fetches : ~CanStep(i)) => call.callbackCount = 1

====
